---- MODULE Spec2Model ----
(***************************************************************************)
(* A model of the Go renderer of Codama IDLs: the type manifest visitor    *)
(* (src/src/getTypeManifestVisitor.ts), the ImportMap                      *)
(* (src/src/ImportMap.ts), the value renderer (src/unnamed/part_000) and   *)
(* the render map visitor (src/unnamed/part_001).                          *)
(*                                                                         *)
(* Strings the code builds are sequences of tokens; names are sequences of *)
(* one-character strings, so that pascalCase, snakeCase and slice act on   *)
(* characters as they do in the code.                                      *)
(***************************************************************************)
EXTENDS Integers, Sequences, FiniteSets, TLC

VARIABLES
    comp,           \* which component this run exercises
    pc,             \* position of the run
    node,           \* the input handed to the component
    options,        \* the options getTypeManifestVisitor was created with
    parentName,     \* getTypeManifestVisitor: let parentName
    nestedStruct,   \* getTypeManifestVisitor: let nestedStruct
    inlineStruct,   \* getTypeManifestVisitor: let inlineStruct
    parentSize,     \* getTypeManifestVisitor: let parentSize
    isOptionField,  \* getTypeManifestVisitor: let isOptionField
    results,        \* what the successive calls returned, oldest first
    program,        \* getRenderMapVisitor: let program
    pending,        \* the programs and children visitRoot has yet to visit
    renders,        \* the render maps the visits under way have collected
    logs,           \* what logWarn was called with, oldest first
    heap,           \* the ImportMap objects of a run, by their identity
    out,            \* the texts ImportMap.toString returned, oldest first
    files           \* the files of the output directory

typeVars == <<options, parentName, nestedStruct, inlineStruct, parentSize, isOptionField>>
renderVars == <<program, pending, renders, logs>>
hostVars == <<heap, out, files>>
vars == <<comp, pc, node, results, typeVars, renderVars, hostVars>>

-----------------------------------------------------------------------------
(* Characters and the string cases of @codama/nodes.                       *)

LOWER == <<"a", "b", "c", "d", "e", "f", "g", "h", "i", "j", "k", "l", "m",
           "n", "o", "p", "q", "r", "s", "t", "u", "v", "w", "x", "y", "z">>
UPPER == <<"A", "B", "C", "D", "E", "F", "G", "H", "I", "J", "K", "L", "M",
           "N", "O", "P", "Q", "R", "S", "T", "U", "V", "W", "X", "Y", "Z">>
DIGITS == {"0", "1", "2", "3", "4", "5", "6", "7", "8", "9"}

Range(s) == {s[i] : i \in DOMAIN s}

IsUpper(ch) == ch \in Range(UPPER)
IsLower(ch) == ch \in Range(LOWER)
IsAlnum(ch) == IsUpper(ch) \/ IsLower(ch) \/ ch \in DIGITS

IndexIn(s, ch) == CHOOSE i \in DOMAIN s : s[i] = ch

\* String.prototype.toUpperCase / toLowerCase on one character.
toUpperCase(ch) == IF IsLower(ch) THEN UPPER[IndexIn(LOWER, ch)] ELSE ch
toLowerCase(ch) == IF IsUpper(ch) THEN LOWER[IndexIn(UPPER, ch)] ELSE ch

\* capitalize: str.charAt(0).toUpperCase() + str.slice(1).toLowerCase().
capitalize(w) ==
    IF w = <<>> THEN w
    ELSE <<toUpperCase(w[1])>> \o [i \in 1..(Len(w) - 1) |-> toLowerCase(w[i + 1])]

RECURSIVE SplitWords(_, _, _)
\* The words of titleCase before capitalisation: a space is put before every
\* upper-case letter, the string is split on runs of non-alphanumerics and
\* the empty words are dropped.
SplitWords(str, cur, acc) ==
    IF str = <<>> THEN (IF cur = <<>> THEN acc ELSE Append(acc, cur))
    ELSE LET ch == Head(str)
             flushed == IF cur = <<>> THEN acc ELSE Append(acc, cur)
         IN  IF IsUpper(ch) THEN SplitWords(Tail(str), <<ch>>, flushed)
             ELSE IF IsAlnum(ch) THEN SplitWords(Tail(str), Append(cur, ch), acc)
             ELSE SplitWords(Tail(str), <<>>, flushed)

titleCase(str) ==
    LET ws == SplitWords(str, <<>>, <<>>)
    IN  [i \in DOMAIN ws |-> capitalize(ws[i])]

RECURSIVE JoinWith(_, _)
\* Array.prototype.join on sequences of token sequences.
JoinWith(parts, sep) ==
    IF parts = <<>> THEN <<>>
    ELSE IF Len(parts) = 1 THEN parts[1]
    ELSE parts[1] \o sep \o JoinWith(Tail(parts), sep)

pascalCase(str) == JoinWith(titleCase(str), <<>>)

snakeCase(str) ==
    LET j == JoinWith(titleCase(str), <<"_">>)
    IN  [i \in DOMAIN j |-> toLowerCase(j[i])]

-----------------------------------------------------------------------------
(* ImportMap (src/src/ImportMap.ts).  An identifier is the sequence of its *)
(* `::`-separated segments; _imports is a set of identifiers; _aliases is  *)
(* a Map, kept as the sequence of its entries in insertion order.          *)

NewImportMap == [imports |-> {}, aliases |-> <<>>]

\* add putting the new identifiers in the place of the set.
add_Replace(m, newImports) == [m EXCEPT !.imports = newImports]

\* ImportMap.add, for a set of identifiers.
add(m, newImports) == [m EXCEPT !.imports = @ \cup newImports]

\* Map.prototype.set: an existing key keeps its place and takes the value.
MapSet(entries, key, value) ==
    IF \E i \in DOMAIN entries : entries[i].key = key
    THEN [i \in DOMAIN entries |->
            IF entries[i].key = key THEN [key |-> key, value |-> value] ELSE entries[i]]
    ELSE Append(entries, [key |-> key, value |-> value])

addAlias(m, importName, alias) ==
    [m EXCEPT !.aliases = MapSet(@, importName, alias)]

RECURSIVE AddAliases(_, _)
AddAliases(m, entries) ==
    IF entries = <<>> THEN m
    ELSE AddAliases(addAlias(m, Head(entries).key, Head(entries).value), Tail(entries))

RECURSIVE mergeWith(_, _)
\* ImportMap.mergeWith(...others), others a sequence of ImportMaps.
mergeWith(m, others) ==
    IF others = <<>> THEN m
    ELSE mergeWith(AddAliases(add(m, Head(others).imports), Head(others).aliases),
                   Tail(others))

\* The keys mapped to the same package, in the order the object lists them.
DEFAULT_MODULE_MAP ==
    <<[key |-> <<"generated">>, value |-> <<>>],
      [key |-> <<"generatedAccounts">>, value |-> <<>>],
      [key |-> <<"generatedErrors">>, value |-> <<>>],
      [key |-> <<"generatedInstructions">>, value |-> <<>>],
      [key |-> <<"generatedTypes">>, value |-> <<>>],
      [key |-> <<"hooked">>, value |-> <<>>]>>

RECURSIVE Spread(_, _)
\* { ...a, ...b }: the entries of b are set on a copy of a, in order.
Spread(a, b) ==
    IF b = <<>> THEN a ELSE Spread(MapSet(a, Head(b).key, Head(b).value), Tail(b))

\* i.startsWith(`${key}::`), on the segments of i and of key.
StartsWithKey(i, key) == Len(i) > Len(key) /\ SubSeq(i, 1, Len(key)) = key

\* resolveDependency returning the mapped value without the rest of i.
resolveDependency_DropRest(dependencyMap, i) ==
    LET matching == {k \in DOMAIN dependencyMap : StartsWithKey(i, dependencyMap[k].key)}
    IN  IF matching = {} THEN i
        ELSE dependencyMap[CHOOSE x \in matching : \A y \in matching : x <= y].value

\* resolveDependency of resolveDependencyMap; the empty identifier is ''.
resolveDependency(dependencyMap, i) ==
    LET matching == {k \in DOMAIN dependencyMap : StartsWithKey(i, dependencyMap[k].key)}
    IN  IF matching = {} THEN i
        ELSE LET k == CHOOSE x \in matching : \A y \in matching : x <= y
                 dependencyKey == dependencyMap[k].key
                 dependencyValue == dependencyMap[k].value
             IN  IF dependencyValue = <<>> THEN <<>>
                 ELSE dependencyValue \o SubSeq(i, Len(dependencyKey) + 1, Len(i))

RECURSIVE ResolveAliases(_, _, _)
\* this._aliases.forEach of resolveDependencyMap.
ResolveAliases(newImportMap, dependencyMap, entries) ==
    IF entries = <<>> THEN newImportMap
    ELSE LET resolved == resolveDependency(dependencyMap, Head(entries).key)
         IN  ResolveAliases(
                IF resolved # <<>> THEN addAlias(newImportMap, resolved, Head(entries).value)
                ELSE newImportMap,
                dependencyMap, Tail(entries))

resolveDependencyMap(m, dependencies) ==
    LET dependencyMap == Spread(DEFAULT_MODULE_MAP, dependencies)
        resolvedImports == {resolveDependency(dependencyMap, i) : i \in m.imports} \ {<<>>}
    IN  ResolveAliases(add(NewImportMap, resolvedImports), dependencyMap, m.aliases)

\* Well-known Go package aliases, in the order the object lists them.
GO_PACKAGE_ALIASES ==
    <<[key |-> <<"github.com/gagliardetto/binary">>, value |-> <<"ag_binary">>],
      [key |-> <<"github.com/gagliardetto/solana-go">>, value |-> <<"ag_solanago">>],
      [key |-> <<"github.com/gagliardetto/solana-go/rpc">>, value |-> <<"ag_rpc">>],
      [key |-> <<"github.com/gagliardetto/treeout">>, value |-> <<"ag_treeout">>]>>

\* The characters of the segments the identifiers of the model are made of.
Spelling(segment) ==
    CASE segment = "fmt" ->
            <<"f", "m", "t">>
      [] segment = "k" ->
            <<"k">>
      [] segment = "j" ->
            <<"j">>
      [] segment = "Foo" ->
            <<"F", "o", "o">>
      [] segment = "a" ->
            <<"a">>
      [] segment = "generated" ->
            <<"g", "e", "n", "e", "r", "a", "t", "e", "d">>
      [] segment = "generatedAccounts" ->
            <<"g", "e", "n", "e", "r", "a", "t", "e", "d", "A", "c", "c", "o", "u", "n", "t", "s">>
      [] segment = "generatedErrors" ->
            <<"g", "e", "n", "e", "r", "a", "t", "e", "d", "E", "r", "r", "o", "r", "s">>
      [] segment = "generatedInstructions" ->
            <<"g", "e", "n", "e", "r", "a", "t", "e", "d", "I", "n", "s", "t", "r", "u", "c", "t", "i", "o", "n", "s">>
      [] segment = "generatedTypes" ->
            <<"g", "e", "n", "e", "r", "a", "t", "e", "d", "T", "y", "p", "e", "s">>
      [] segment = "hooked" ->
            <<"h", "o", "o", "k", "e", "d">>
      [] segment = "sub" ->
            <<"s", "u", "b">>
      [] segment = "encoding/binary" ->
            <<"e", "n", "c", "o", "d", "i", "n", "g", "/", "b", "i", "n", "a", "r", "y">>
      [] segment = "github.com/x/y" ->
            <<"g", "i", "t", "h", "u", "b", ".", "c", "o", "m", "/", "x", "/", "y">>
      [] segment = "github.com/gagliardetto/binary" ->
            <<"g", "i", "t", "h", "u", "b", ".", "c", "o", "m", "/", "g", "a", "g", "l", "i", "a", "r", "d", "e", "t", "t", "o", "/", "b", "i", "n", "a", "r", "y">>
      [] segment = "github.com/gagliardetto/solana-go" ->
            <<"g", "i", "t", "h", "u", "b", ".", "c", "o", "m", "/", "g", "a", "g", "l", "i", "a", "r", "d", "e", "t", "t", "o", "/", "s", "o", "l", "a", "n", "a", "-", "g", "o">>

\* The identifier as the string the ImportMap holds: its segments joined by `::`.
Chars(i) == JoinWith([k \in DOMAIN i |-> Spelling(i[k])], <<":", ":">>)

\* The characters of identifiers in the order of their UTF-16 code units.
CODE_UNITS ==
    <<"-", ".", "/", "0", "1", "2", "3", "4", "5", "6", "7", "8", "9", ":">>
    \o UPPER \o <<"_">> \o LOWER

RECURSIVE StringLess(_, _)
\* a < b on strings: the comparison Array.prototype.sort() makes by default.
StringLess(a, b) ==
    IF b = <<>> THEN FALSE
    ELSE IF a = <<>> THEN TRUE
    ELSE IF Head(a) = Head(b) THEN StringLess(Tail(a), Tail(b))
    ELSE IndexIn(CODE_UNITS, Head(a)) < IndexIn(CODE_UNITS, Head(b))

RECURSIVE Sorted(_)
\* [...imports].sort(): the identifiers of a set in ascending order.
Sorted(imports) ==
    IF imports = {} THEN <<>>
    ELSE LET least == CHOOSE x \in imports :
                        \A y \in imports : ~StringLess(Chars(y), Chars(x))
         IN  <<least>> \o Sorted(imports \ {least})

\* Map.prototype.has and Map.prototype.get, also for the keys of an object.
MapHas(entries, key) == \E k \in DOMAIN entries : entries[k].key = key
MapGet(entries, key) == entries[CHOOSE k \in DOMAIN entries : entries[k].key = key].value

\* imp.split('/')[0].includes('.')
FirstSegmentHasDot(chars) ==
    \E k \in DOMAIN chars : chars[k] = "." /\ \A l \in 1..(k - 1) : chars[l] # "/"

\* ImportLine looking in the built-in table before the declared aliases.
ImportLine_BuiltInFirst(resolvedMap, imp) ==
    LET alias == IF MapHas(GO_PACKAGE_ALIASES, imp)
                 THEN MapGet(GO_PACKAGE_ALIASES, imp)
                 ELSE IF MapHas(resolvedMap.aliases, imp)
                 THEN MapGet(resolvedMap.aliases, imp)
                 ELSE <<>>
    IN  IF alias # <<>>
        THEN <<"\t">> \o alias \o <<" ", "\"">> \o Chars(imp) \o <<"\"">>
        ELSE <<"\t", "\"">> \o Chars(imp) \o <<"\"">>

\* The line toString writes for an import; an alias that is undefined or
\* the empty string is no alias.
ImportLine(resolvedMap, imp) ==
    LET alias == IF MapHas(resolvedMap.aliases, imp) /\ MapGet(resolvedMap.aliases, imp) # <<>>
                 THEN MapGet(resolvedMap.aliases, imp)
                 ELSE IF MapHas(GO_PACKAGE_ALIASES, imp)
                 THEN MapGet(GO_PACKAGE_ALIASES, imp)
                 ELSE <<>>
    IN  IF alias # <<>>
        THEN <<"\t">> \o alias \o <<" ", "\"">> \o Chars(imp) \o <<"\"">>
        ELSE <<"\t", "\"">> \o Chars(imp) \o <<"\"">>

toString(m, dependencies) ==
    LET resolvedMap == resolveDependencyMap(m, dependencies)
        sortedImports == Sorted(resolvedMap.imports)
        stdImports == SelectSeq(sortedImports, LAMBDA imp : ~FirstSegmentHasDot(Chars(imp)))
        extImports == SelectSeq(sortedImports, LAMBDA imp : FirstSegmentHasDot(Chars(imp)))
        Group(imps) == JoinWith([k \in DOMAIN imps |-> ImportLine(resolvedMap, imps[k])], <<"\n">>)
        groups == (IF Len(stdImports) > 0 THEN <<Group(stdImports)>> ELSE <<>>)
                  \o (IF Len(extImports) > 0 THEN <<Group(extImports)>> ELSE <<>>)
    IN  IF resolvedMap.imports = {} THEN <<>>
        ELSE IF Len(groups) = 0 THEN <<>>
        ELSE <<"import (", "\n">> \o JoinWith(groups, <<"\n", "\n">>) \o <<"\n", ")">>

AG_BINARY == <<"github.com/gagliardetto/binary">>
AG_SOLANAGO == <<"github.com/gagliardetto/solana-go">>
ENCODING_BINARY == <<"encoding/binary">>

-----------------------------------------------------------------------------
(* The type manifest visitor (src/src/getTypeManifestVisitor.ts).          *)
(*                                                                         *)
(* The five `let` variables of the closure are threaded through the visit  *)
(* as the record c; every handler returns the manifest together with the   *)
(* value the variables have when it returns.  A throw is a result with     *)
(* ok = FALSE carrying the variables as they are at the throw: nothing in  *)
(* the code catches, so no assignment after the throwing call is run.      *)

Null == <<>>            \* null (and the empty string: both are falsy)
BQ == "(backquote)"     \* the character U+0060, which a TLA+ string cannot hold

NoSize == [kind |-> "null"]
NumberSize(n) == [kind |-> "number", value |-> n]
ObjectSize(n) == [kind |-> "object", node |-> n]

\* The closure variables right after getTypeManifestVisitor(opts).
InitialContext(opts) ==
    [parentName |-> opts.parentName, nestedStruct |-> opts.nestedStruct,
     inlineStruct |-> FALSE, parentSize |-> NoSize, isOptionField |-> FALSE]

Ok(type, nestedStructs, imports, c) ==
    [ok |-> TRUE, err |-> "", type |-> type, nestedStructs |-> nestedStructs,
     imports |-> imports, ctx |-> c]
Throw(msg, c) ==
    [ok |-> FALSE, err |-> msg, type |-> <<>>, nestedStructs |-> <<>>,
     imports |-> NewImportMap, ctx |-> c]

NUMBER_FORMAT_MAP ==
    [f \in {"f32", "f64", "i8", "i16", "i32", "i64", "i128",
            "u8", "u16", "u32", "u64", "u128", "shortU16"} |->
        CASE f = "f32" -> "float32" [] f = "f64" -> "float64"
          [] f = "i8" -> "int8" [] f = "i16" -> "int16" [] f = "i32" -> "int32"
          [] f = "i64" -> "int64" [] f = "i128" -> "ag_binary.Int128"
          [] f = "u8" -> "uint8" [] f = "u16" -> "uint16" [] f = "u32" -> "uint32"
          [] f = "u64" -> "uint64" [] f = "u128" -> "ag_binary.Uint128"
          [] f = "shortU16" -> "uint16"]

\* Node constructors of @codama/nodes used by the code.
numberTypeNode(format, endian) ==
    [kind |-> "numberTypeNode", format |-> format, endian |-> endian]
arrayTypeNode(item, count) == [kind |-> "arrayTypeNode", item |-> item, count |-> count]
fixedCountNode(value) == [kind |-> "fixedCountNode", value |-> value]
prefixedCountNode(prefix) == [kind |-> "prefixedCountNode", prefix |-> prefix]
remainderCountNode == [kind |-> "remainderCountNode"]
u8 == numberTypeNode("u8", "le")
stringTypeNode == [kind |-> "stringTypeNode"]
bytesTypeNode == [kind |-> "bytesTypeNode"]
publicKeyTypeNode == [kind |-> "publicKeyTypeNode"]
booleanTypeNode(size) == [kind |-> "booleanTypeNode", size |-> size]
optionTypeNode(item) == [kind |-> "optionTypeNode", item |-> item]
setTypeNode(item) == [kind |-> "setTypeNode", item |-> item]
mapTypeNode(key, value) == [kind |-> "mapTypeNode", key |-> key, value |-> value]
tupleTypeNode(items) == [kind |-> "tupleTypeNode", items |-> items]
structFieldTypeNode(name, type) ==
    [kind |-> "structFieldTypeNode", name |-> name, type |-> type]
structTypeNode(fields) == [kind |-> "structTypeNode", fields |-> fields]
enumEmptyVariantTypeNode(name) == [kind |-> "enumEmptyVariantTypeNode", name |-> name]
enumStructVariantTypeNode(name, struct) ==
    [kind |-> "enumStructVariantTypeNode", name |-> name, struct |-> struct]
enumTupleVariantTypeNode(name, tuple) ==
    [kind |-> "enumTupleVariantTypeNode", name |-> name, tuple |-> tuple]
enumTypeNode(variants) == [kind |-> "enumTypeNode", variants |-> variants]
fixedSizeTypeNode(type, size) == [kind |-> "fixedSizeTypeNode", type |-> type, size |-> size]
sizePrefixTypeNode(type, prefix) ==
    [kind |-> "sizePrefixTypeNode", type |-> type, prefix |-> prefix]
definedTypeNode(name, type) == [kind |-> "definedTypeNode", name |-> name, type |-> type]
definedTypeLinkNode(name) == [kind |-> "definedTypeLinkNode", name |-> name]
accountNode(name, data) == [kind |-> "accountNode", name |-> name, data |-> data]

RECURSIVE resolveNestedTypeNode(_)
\* @codama/nodes: strips the wrappers around a nested type node.
resolveNestedTypeNode(n) ==
    IF n.kind \in {"fixedSizeTypeNode", "sizePrefixTypeNode"}
    THEN resolveNestedTypeNode(n.type)
    ELSE n

\* @codama/nodes: every variant of the enum is an empty variant.
isScalarEnum(n) ==
    \A i \in DOMAIN n.variants : n.variants[i].kind = "enumEmptyVariantTypeNode"

RECURSIVE FlatMap(_)
FlatMap(seqs) == IF seqs = <<>> THEN <<>> ELSE Head(seqs) \o FlatMap(Tail(seqs))

\* The manifests merged last to first.
mergeManifests_LastFirst(manifests) ==
    [imports |-> mergeWith(NewImportMap, [i \in DOMAIN manifests |-> manifests[i].imports]),
     nestedStructs |->
        FlatMap([i \in DOMAIN manifests |-> manifests[Len(manifests) + 1 - i].nestedStructs])]

mergeManifests(manifests) ==
    [imports |-> mergeWith(NewImportMap, [i \in DOMAIN manifests |-> manifests[i].imports]),
     nestedStructs |-> FlatMap([i \in DOMAIN manifests |-> manifests[i].nestedStructs])]

\* goDocComment(parseDocs(docs)) of a node without docs.
goDocComment(docs) == <<>>

RECURSIVE Visit(_, _)
RECURSIVE VisitEach(_, _, _)
\* nodes.map(n => visit(n, self)): the nodes are visited first to last, each
\* starting from the variables the one before left; a throw ends the map.
VisitEach(nodes, c, done) ==
    IF nodes = <<>> THEN [ok |-> TRUE, err |-> "", values |-> done, ctx |-> c]
    ELSE LET r == Visit(Head(nodes), c)
         IN  IF ~r.ok THEN [ok |-> FALSE, err |-> r.err, values |-> done, ctx |-> r.ctx]
             ELSE VisitEach(Tail(nodes), r.ctx, Append(done, r))

visitAccount(account, c) ==
    LET r == Visit(account.data, [c EXCEPT !.parentName = pascalCase(account.name)])
    IN  IF ~r.ok THEN r
        ELSE [r EXCEPT !.ctx.parentName = Null]

visitArrayType(arrayType, c) ==
    LET childManifest == Visit(arrayType.item, c)
    IN  IF ~childManifest.ok THEN childManifest
        ELSE IF arrayType.count.kind = "fixedCountNode"
        THEN [childManifest EXCEPT
                !.type = <<"[", ToString(arrayType.count.value), "]">> \o @]
        ELSE [childManifest EXCEPT !.type = <<"[]">> \o @]

visitBooleanType(booleanType, c) ==
    LET resolvedSize == resolveNestedTypeNode(booleanType.size)
    IN  IF resolvedSize.format = "u8" /\ resolvedSize.endian = "le"
        THEN Ok(<<"bool">>, <<>>, NewImportMap, c)
        ELSE Throw("Bool size not supported by Borsh", c)

visitBytesType(bytesType, c) ==
    LET arraySize ==
            IF c.parentSize.kind = "number" THEN fixedCountNode(c.parentSize.value)
            ELSE IF c.parentSize.kind = "object" THEN prefixedCountNode(c.parentSize.node)
            ELSE remainderCountNode
    IN  Visit(arrayTypeNode(numberTypeNode("u8", "le"), arraySize), c)

visitDefinedType(definedType, c) ==
    LET manifest == Visit(definedType.type,
                          [c EXCEPT !.parentName = pascalCase(definedType.name)])
        renderedType ==
            IF definedType.type.kind \in {"enumTypeNode", "structTypeNode"}
            THEN manifest.type
            ELSE <<"type ">> \o pascalCase(definedType.name) \o <<" = ">> \o manifest.type
    IN  IF ~manifest.ok THEN manifest
        ELSE [manifest EXCEPT !.ctx.parentName = Null, !.type = renderedType]

visitDefinedTypeLink(n, c) ==
    Ok(pascalCase(n.name), <<>>, NewImportMap, c)

visitEnumEmptyVariantType(enumEmptyVariantType, c) ==
    Ok(pascalCase(enumEmptyVariantType.name), <<>>, NewImportMap, c)

visitEnumStructVariantType(enumStructVariantType, c) ==
    LET name == pascalCase(enumStructVariantType.name)
        originalParentName == c.parentName
        typeManifest ==
            Visit(enumStructVariantType.struct,
                  [c EXCEPT !.inlineStruct = TRUE,
                            !.parentName = pascalCase(originalParentName) \o name])
    IN  IF originalParentName = Null
        THEN Throw("Enum struct variant type must have a parent name.", c)
        ELSE IF ~typeManifest.ok THEN typeManifest
        ELSE [typeManifest EXCEPT
                !.ctx.inlineStruct = FALSE,
                !.ctx.parentName = originalParentName,
                !.type = name \o <<" ">> \o @]

\* visitEnumTupleVariantType without the test of the parent name.
visitEnumTupleVariantType_NoCheck(enumTupleVariantType, c) ==
    LET name == pascalCase(enumTupleVariantType.name)
        originalParentName == c.parentName
        childManifest ==
            Visit(enumTupleVariantType.tuple,
                  [c EXCEPT !.parentName = pascalCase(originalParentName) \o name])
    IN  IF ~childManifest.ok THEN childManifest
        ELSE [childManifest EXCEPT
                !.ctx.parentName = originalParentName,
                !.type = name \o <<" ">> \o @]

visitEnumTupleVariantType(enumTupleVariantType, c) ==
    LET name == pascalCase(enumTupleVariantType.name)
        originalParentName == c.parentName
        childManifest ==
            Visit(enumTupleVariantType.tuple,
                  [c EXCEPT !.parentName = pascalCase(originalParentName) \o name])
    IN  IF originalParentName = Null
        THEN Throw("Enum tuple variant type must have a parent name.", c)
        ELSE IF ~childManifest.ok THEN childManifest
        ELSE [childManifest EXCEPT
                !.ctx.parentName = originalParentName,
                !.type = name \o <<" ">> \o @]

\* visitEnumType with `= iota` written on the last constant instead of the first.
visitEnumType_IotaLast(enumType, c) ==
    LET originalParentName == c.parentName
        typeName == pascalCase(originalParentName)
        vs == VisitEach(enumType.variants, c, <<>>)
        variants == vs.values
        mergedManifest == mergeManifests(variants)
        constLines ==
            [index \in DOMAIN variants |->
                LET variantName == typeName \o <<"_">> \o variants[index].type
                IN  IF index = Len(variants)
                    THEN <<"\t">> \o variantName \o <<" ">> \o typeName \o <<" = iota">>
                    ELSE <<"\t">> \o variantName]
        typeDecl == <<"type ">> \o typeName \o <<" uint8">>
        constDecl == <<"const (", "\n">> \o JoinWith(constLines, <<"\n">>) \o <<"\n", ")">>
        fieldLines ==
            <<  <<"\t", "Enum ag_binary.BorshEnum ", BQ, "borsh_enum:\"true\"", BQ>>  >>
            \o [i \in DOMAIN variants |-> <<"\t">> \o variants[i].type]
    IN  IF originalParentName = Null
        THEN Throw("Enum type must have a parent name.", c)
        ELSE IF ~vs.ok THEN Throw(vs.err, vs.ctx)
        ELSE IF isScalarEnum(enumType)
        THEN Ok(typeDecl \o <<"\n", "\n">> \o constDecl,
                mergedManifest.nestedStructs, mergedManifest.imports, vs.ctx)
        ELSE Ok(<<"type ">> \o typeName \o <<" struct {", "\n">>
                    \o JoinWith(fieldLines, <<"\n">>) \o <<"\n", "}">>,
                mergedManifest.nestedStructs,
                add(mergedManifest.imports, {AG_BINARY}), vs.ctx)

visitEnumType(enumType, c) ==
    LET originalParentName == c.parentName
        typeName == pascalCase(originalParentName)
        vs == VisitEach(enumType.variants, c, <<>>)
        variants == vs.values
        mergedManifest == mergeManifests(variants)
        constLines ==
            [index \in DOMAIN variants |->
                LET variantName == typeName \o <<"_">> \o variants[index].type
                IN  IF index = 1
                    THEN <<"\t">> \o variantName \o <<" ">> \o typeName \o <<" = iota">>
                    ELSE <<"\t">> \o variantName]
        typeDecl == <<"type ">> \o typeName \o <<" uint8">>
        constDecl == <<"const (", "\n">> \o JoinWith(constLines, <<"\n">>) \o <<"\n", ")">>
        fieldLines ==
            <<  <<"\t", "Enum ag_binary.BorshEnum ", BQ, "borsh_enum:\"true\"", BQ>>  >>
            \o [i \in DOMAIN variants |-> <<"\t">> \o variants[i].type]
    IN  IF originalParentName = Null
        THEN Throw("Enum type must have a parent name.", c)
        ELSE IF ~vs.ok THEN Throw(vs.err, vs.ctx)
        ELSE IF isScalarEnum(enumType)
        THEN Ok(typeDecl \o <<"\n", "\n">> \o constDecl,
                mergedManifest.nestedStructs, mergedManifest.imports, vs.ctx)
        ELSE Ok(<<"type ">> \o typeName \o <<" struct {", "\n">>
                    \o JoinWith(fieldLines, <<"\n">>) \o <<"\n", "}">>,
                mergedManifest.nestedStructs,
                add(mergedManifest.imports, {AG_BINARY}), vs.ctx)

visitFixedSizeType(fixedSizeType, c) ==
    LET manifest == Visit(fixedSizeType.type,
                          [c EXCEPT !.parentSize = NumberSize(fixedSizeType.size)])
    IN  IF ~manifest.ok THEN manifest
        ELSE [manifest EXCEPT !.ctx.parentSize = NoSize]

visitMapType(mapType, c) ==
    LET key == Visit(mapType.key, c)
        value == Visit(mapType.value, key.ctx)
        mergedManifest == mergeManifests(<<key, value>>)
    IN  IF ~key.ok THEN key
        ELSE IF ~value.ok THEN value
        ELSE Ok(<<"map[">> \o key.type \o <<"]">> \o value.type,
                mergedManifest.nestedStructs, mergedManifest.imports, value.ctx)

\* String.prototype.startsWith('ag_binary.') on the Go types of the table.
StartsWithAgBinary(goType) == goType \in {"ag_binary.Int128", "ag_binary.Uint128"}

visitNumberType(numberType, c) ==
    IF numberType.endian # "le"
    THEN Throw("Number endianness not supported by Borsh", c)
    ELSE IF numberType.format \notin DOMAIN NUMBER_FORMAT_MAP
    THEN Throw("Number format not supported", c)
    ELSE LET goType == NUMBER_FORMAT_MAP[numberType.format]
         IN  Ok(<<goType>>, <<>>,
                IF StartsWithAgBinary(goType) THEN add(NewImportMap, {AG_BINARY})
                ELSE NewImportMap,
                c)

visitOptionType(optionType, c) ==
    LET childManifest == Visit(optionType.item, [c EXCEPT !.isOptionField = TRUE])
    IN  IF ~childManifest.ok THEN childManifest
        ELSE [childManifest EXCEPT !.ctx.isOptionField = FALSE,
                                   !.type = <<"*">> \o @]

visitPublicKeyType(n, c) ==
    Ok(<<"ag_solanago.PublicKey">>, <<>>, add(NewImportMap, {AG_SOLANAGO}), c)

visitRemainderOptionType(n, c) == Throw("CODAMA_ERROR__RENDERERS__UNSUPPORTED_NODE", c)

visitSetType(setType, c) ==
    LET childManifest == Visit(setType.item, c)
    IN  IF ~childManifest.ok THEN childManifest
        ELSE [childManifest EXCEPT !.type = <<"map[">> \o @ \o <<"]struct{}">>]

visitSizePrefixType(sizePrefixType, c) ==
    LET manifest ==
            Visit(sizePrefixType.type,
                  [c EXCEPT !.parentSize =
                        ObjectSize(resolveNestedTypeNode(sizePrefixType.prefix))])
    IN  IF ~manifest.ok THEN manifest
        ELSE [manifest EXCEPT !.ctx.parentSize = NoSize]

\* !parentSize: null, and the number 0, are falsy.
Falsy(size) == size.kind = "null" \/ (size.kind = "number" /\ size.value = 0)

visitStringType(n, c) ==
    IF Falsy(c.parentSize) THEN Ok(<<"string">>, <<>>, NewImportMap, c)
    ELSE IF c.parentSize.kind = "number"
    THEN Ok(<<"[", ToString(c.parentSize.value), "]", "byte">>, <<>>, NewImportMap, c)
    ELSE Ok(<<"string">>, <<>>, NewImportMap, c)

OPTIONAL_TAG == "bin:\"optional\""

\* visitStructFieldType extending parentName by the field name as written.
visitStructFieldType_RawName(structFieldType, c) ==
    LET originalParentName == c.parentName
        originalInlineStruct == c.inlineStruct
        originalNestedStruct == c.nestedStruct
        fieldManifest ==
            Visit(structFieldType.type,
                  [c EXCEPT !.parentName = pascalCase(originalParentName)
                                              \o structFieldType.name,
                            !.nestedStruct = TRUE,
                            !.inlineStruct = FALSE])
        fieldName == pascalCase(structFieldType.name)
        docblock == goDocComment(<<>>)
        tags == IF fieldManifest.ctx.isOptionField THEN <<OPTIONAL_TAG>> ELSE <<>>
        tagStr == IF Len(tags) > 0 THEN <<" ", BQ>> \o tags \o <<BQ>> ELSE <<>>
    IN  IF originalParentName = Null
        THEN Throw("Struct field type must have a parent name.", c)
        ELSE IF ~fieldManifest.ok THEN fieldManifest
        ELSE [fieldManifest EXCEPT
                !.ctx.parentName = originalParentName,
                !.ctx.inlineStruct = originalInlineStruct,
                !.ctx.nestedStruct = originalNestedStruct,
                !.ctx.isOptionField = FALSE,
                !.type = docblock \o <<"\t">> \o fieldName \o <<" ">> \o @ \o tagStr]

visitStructFieldType(structFieldType, c) ==
    LET originalParentName == c.parentName
        originalInlineStruct == c.inlineStruct
        originalNestedStruct == c.nestedStruct
        fieldManifest ==
            Visit(structFieldType.type,
                  [c EXCEPT !.parentName = pascalCase(originalParentName)
                                              \o pascalCase(structFieldType.name),
                            !.nestedStruct = TRUE,
                            !.inlineStruct = FALSE])
        fieldName == pascalCase(structFieldType.name)
        docblock == goDocComment(<<>>)
        tags == IF fieldManifest.ctx.isOptionField THEN <<OPTIONAL_TAG>> ELSE <<>>
        tagStr == IF Len(tags) > 0 THEN <<" ", BQ>> \o tags \o <<BQ>> ELSE <<>>
    IN  IF originalParentName = Null
        THEN Throw("Struct field type must have a parent name.", c)
        ELSE IF ~fieldManifest.ok THEN fieldManifest
        ELSE [fieldManifest EXCEPT
                !.ctx.parentName = originalParentName,
                !.ctx.inlineStruct = originalInlineStruct,
                !.ctx.nestedStruct = originalNestedStruct,
                !.ctx.isOptionField = FALSE,
                !.type = docblock \o <<"\t">> \o fieldName \o <<" ">> \o @ \o tagStr]

visitStructType(structType, c) ==
    LET originalParentName == c.parentName
        fs == VisitEach(structType.fields, c, <<>>)
        fields == fs.values
        fieldTypes == JoinWith([i \in DOMAIN fields |-> fields[i].type], <<"\n">>)
        mergedManifest == mergeManifests(fields)
        decl == <<"type ">> \o pascalCase(originalParentName) \o <<" struct {", "\n">>
                    \o fieldTypes \o <<"\n", "}">>
    IN  IF originalParentName = Null
        THEN Throw("Struct type must have a parent name.", c)
        ELSE IF ~fs.ok THEN Throw(fs.err, fs.ctx)
        ELSE IF fs.ctx.nestedStruct
        THEN Ok(pascalCase(originalParentName),
                Append(mergedManifest.nestedStructs, decl),
                mergedManifest.imports, fs.ctx)
        ELSE IF fs.ctx.inlineStruct
        THEN Ok(<<"struct {", "\n">> \o fieldTypes \o <<"\n", "}">>,
                mergedManifest.nestedStructs, mergedManifest.imports, fs.ctx)
        ELSE Ok(decl, mergedManifest.nestedStructs, mergedManifest.imports, fs.ctx)

visitTupleType(tupleType, c) ==
    LET is == VisitEach(tupleType.items, c, <<>>)
        items == is.values
        mergedManifest == mergeManifests(items)
        fieldLines ==
            [i \in DOMAIN items |-> <<"\t", "Field", ToString(i - 1), " ">> \o items[i].type]
    IN  IF ~is.ok THEN Throw(is.err, is.ctx)
        ELSE IF Len(items) = 1
        THEN Ok(items[1].type, mergedManifest.nestedStructs, mergedManifest.imports, is.ctx)
        ELSE Ok(<<"struct {", "\n">> \o JoinWith(fieldLines, <<"\n">>) \o <<"\n", "}">>,
                mergedManifest.nestedStructs, mergedManifest.imports, is.ctx)

visitZeroableOptionType(n, c) == Throw("CODAMA_ERROR__RENDERERS__UNSUPPORTED_NODE", c)

\* visit(node, self): the dispatch of extendVisitor on the node's kind.
Visit(n, c) ==
    CASE n.kind = "accountNode" -> visitAccount(n, c)
      [] n.kind = "arrayTypeNode" -> visitArrayType(n, c)
      [] n.kind = "booleanTypeNode" -> visitBooleanType(n, c)
      [] n.kind = "bytesTypeNode" -> visitBytesType(n, c)
      [] n.kind = "definedTypeNode" -> visitDefinedType(n, c)
      [] n.kind = "definedTypeLinkNode" -> visitDefinedTypeLink(n, c)
      [] n.kind = "enumEmptyVariantTypeNode" -> visitEnumEmptyVariantType(n, c)
      [] n.kind = "enumStructVariantTypeNode" -> visitEnumStructVariantType(n, c)
      [] n.kind = "enumTupleVariantTypeNode" -> visitEnumTupleVariantType(n, c)
      [] n.kind = "enumTypeNode" -> visitEnumType(n, c)
      [] n.kind = "fixedSizeTypeNode" -> visitFixedSizeType(n, c)
      [] n.kind = "mapTypeNode" -> visitMapType(n, c)
      [] n.kind = "numberTypeNode" -> visitNumberType(n, c)
      [] n.kind = "optionTypeNode" -> visitOptionType(n, c)
      [] n.kind = "publicKeyTypeNode" -> visitPublicKeyType(n, c)
      [] n.kind = "remainderOptionTypeNode" -> visitRemainderOptionType(n, c)
      [] n.kind = "setTypeNode" -> visitSetType(n, c)
      [] n.kind = "sizePrefixTypeNode" -> visitSizePrefixType(n, c)
      [] n.kind = "stringTypeNode" -> visitStringType(n, c)
      [] n.kind = "structFieldTypeNode" -> visitStructFieldType(n, c)
      [] n.kind = "structTypeNode" -> visitStructType(n, c)
      [] n.kind = "tupleTypeNode" -> visitTupleType(n, c)
      [] n.kind = "zeroableOptionTypeNode" -> visitZeroableOptionType(n, c)

-----------------------------------------------------------------------------
(* The value renderer (src/unnamed/part_000, renderValueNodeVisitor).      *)

VOk(render, imports) == [ok |-> TRUE, err |-> "", render |-> render, imports |-> imports]
VThrow(msg) == [ok |-> FALSE, err |-> msg, render |-> <<>>, imports |-> NewImportMap]

numberValueNode(number) == [kind |-> "numberValueNode", number |-> number]
arrayValueNode(items) == [kind |-> "arrayValueNode", items |-> items]
bytesValueNode(encoding, data) ==
    [kind |-> "bytesValueNode", encoding |-> encoding, data |-> data]
stringValueNode(string) == [kind |-> "stringValueNode", string |-> string]
booleanValueNode(boolean) == [kind |-> "booleanValueNode", boolean |-> boolean]
noneValueNode == [kind |-> "noneValueNode"]
someValueNode(value) == [kind |-> "someValueNode", value |-> value]
publicKeyValueNode(publicKey) == [kind |-> "publicKeyValueNode", publicKey |-> publicKey]
tupleValueNode(items) == [kind |-> "tupleValueNode", items |-> items]
setValueNode(items) == [kind |-> "setValueNode", items |-> items]
mapEntryValueNode(key, value) == [kind |-> "mapEntryValueNode", key |-> key, value |-> value]
mapValueNode(entries) == [kind |-> "mapValueNode", entries |-> entries]
structFieldValueNode(name, value) ==
    [kind |-> "structFieldValueNode", name |-> name, value |-> value]
structValueNode(fields) == [kind |-> "structValueNode", fields |-> fields]
enumValueNode(enum, variant, value) ==
    [kind |-> "enumValueNode", enum |-> definedTypeLinkNode(enum), variant |-> variant,
     value |-> value]
constantValueNode(type, value) ==
    [kind |-> "constantValueNode", type |-> type, value |-> value]

\* An enum value without a payload: node.value is undefined.
Undefined == [kind |-> "undefined"]

\* The characters of a number format, for format.slice(1).
FormatChars(format) ==
    CASE format = "f32" -> <<"f", "3", "2">> [] format = "f64" -> <<"f", "6", "4">>
      [] format = "i8" -> <<"i", "8">> [] format = "i16" -> <<"i", "1", "6">>
      [] format = "i32" -> <<"i", "3", "2">> [] format = "i64" -> <<"i", "6", "4">>
      [] format = "i128" -> <<"i", "1", "2", "8">>
      [] format = "u8" -> <<"u", "8">> [] format = "u16" -> <<"u", "1", "6">>
      [] format = "u32" -> <<"u", "3", "2">> [] format = "u64" -> <<"u", "6", "4">>
      [] format = "u128" -> <<"u", "1", "2", "8">>
      [] format = "shortU16" -> <<"s", "h", "o", "r", "t", "U", "1", "6">>

\* getBytesFromBytesValueNode (utils): the bytes a bytes value stands for.
\* The encodings are not modelled: the node holds its bytes.
getBytesFromBytesValueNode(n) == n.data

\* JSON.stringify of a string of letters and digits.
JsonString(str) == <<"\"">> \o str \o <<"\"">>

RECURSIVE RenderValue(_)
RECURSIVE RenderEach(_, _)
\* items.map(v => visit(v, this)); a throw ends the map.
RenderEach(nodes, done) ==
    IF nodes = <<>> THEN [ok |-> TRUE, err |-> "", values |-> done]
    ELSE LET r == RenderValue(Head(nodes))
         IN  IF ~r.ok THEN [ok |-> FALSE, err |-> r.err, values |-> done]
             ELSE RenderEach(Tail(nodes), Append(done, r))

Renders(list) == [i \in DOMAIN list |-> list[i].render]
Imports(list) == [i \in DOMAIN list |-> list[i].imports]

visitArrayValue(n) ==
    LET l == RenderEach(n.items, <<>>)
        list == l.values
    IN  IF ~l.ok THEN VThrow(l.err)
        ELSE VOk(<<"[]byte{">> \o JoinWith(Renders(list), <<", ">>) \o <<"}">>,
                 mergeWith(NewImportMap, Imports(list)))

visitBooleanValue(n) ==
    VOk(<<IF n.boolean THEN "true" ELSE "false">>, NewImportMap)

visitBytesValue(n) ==
    LET bytes == getBytesFromBytesValueNode(n)
        numbers == [i \in DOMAIN bytes |-> numberValueNode(bytes[i])]
    IN  RenderValue(arrayValueNode(numbers))

\* Character codes of a string value in utf8, for the letters of LOWER.
Utf8(str) == [i \in DOMAIN str |-> 96 + IndexIn(LOWER, str[i])]

visitConstantValue(n) ==
    IF n.value.kind = "bytesValueNode" THEN RenderValue(n.value)
    ELSE IF n.type.kind = "stringTypeNode" /\ n.value.kind = "stringValueNode"
    THEN RenderValue(bytesValueNode("utf8", Utf8(n.value.string)))
    ELSE IF n.type.kind = "numberTypeNode" /\ n.value.kind = "numberValueNode"
    THEN LET numberManifest == RenderValue(n.value)
             format == n.type.format
             endian == n.type.endian
             goEndian == IF endian = "le" THEN "LittleEndian" ELSE "BigEndian"
         IN  IF format = "u8"
             THEN VOk(<<"byte(">> \o numberManifest.render \o <<")">>,
                      numberManifest.imports)
             ELSE VOk(<<"binary.", goEndian, ".AppendUint">> \o Tail(FormatChars(format))
                          \o <<"(nil, ">> \o numberManifest.render \o <<")">>,
                      add(numberManifest.imports, {ENCODING_BINARY}))
    ELSE VThrow("Unsupported constant value type.")

visitEnumValue(n) ==
    LET imports == NewImportMap
        enumName == pascalCase(n.enum.name)
        variantName == pascalCase(n.variant)
        enumValue == RenderValue(n.value)
        fields == enumValue.render
    IN  IF n.value = Undefined
        THEN VOk(enumName \o <<"_">> \o variantName, imports)
        ELSE IF ~enumValue.ok THEN enumValue
        ELSE VOk(enumName \o <<"_">> \o variantName \o <<" ">> \o fields,
                 mergeWith(imports, <<enumValue.imports>>))

visitMapEntryValue(n) ==
    LET mapKey == RenderValue(n.key)
        mapValue == RenderValue(n.value)
    IN  IF ~mapKey.ok THEN mapKey
        ELSE IF ~mapValue.ok THEN mapValue
        ELSE VOk(mapKey.render \o <<": ">> \o mapValue.render,
                 mergeWith(mapKey.imports, <<mapValue.imports>>))

visitMapValue(n) ==
    LET l == RenderEach(n.entries, <<>>)
        map == l.values
    IN  IF ~l.ok THEN VThrow(l.err)
        ELSE VOk(<<"map[string]interface{}{">> \o JoinWith(Renders(map), <<", ">>) \o <<"}">>,
                 mergeWith(NewImportMap, Imports(map)))

visitNoneValue(n) == VOk(<<"nil">>, NewImportMap)

visitNumberValue(n) == VOk(<<ToString(n.number)>>, NewImportMap)

visitPublicKeyValue(n) ==
    VOk(<<"ag_solanago.MustPublicKeyFromBase58(\"">> \o n.publicKey \o <<"\")">>,
        add(NewImportMap, {AG_SOLANAGO}))

visitSetValue(n) ==
    LET l == RenderEach(n.items, <<>>)
        set == l.values
    IN  IF ~l.ok THEN VThrow(l.err)
        ELSE VOk(<<"map[interface{}]struct{}{">>
                    \o JoinWith([i \in DOMAIN set |-> set[i].render \o <<": {}">>], <<", ">>)
                    \o <<"}">>,
                 mergeWith(NewImportMap, Imports(set)))

visitSomeValue(n) ==
    LET child == RenderValue(n.value)
    IN  IF ~child.ok THEN child
        ELSE [child EXCEPT !.render =
                <<"func() *interface{} { v := ">> \o @ \o <<"; return &v }()">>]

visitStringValue(n) == VOk(JsonString(n.string), NewImportMap)

visitStructFieldValue(n) ==
    LET structValue == RenderValue(n.value)
    IN  IF ~structValue.ok THEN structValue
        ELSE VOk(pascalCase(n.name) \o <<": ">> \o structValue.render, structValue.imports)

visitStructValue(n) ==
    LET l == RenderEach(n.fields, <<>>)
        struct == l.values
    IN  IF ~l.ok THEN VThrow(l.err)
        ELSE VOk(<<"{">> \o JoinWith(Renders(struct), <<", ">>) \o <<"}">>,
                 mergeWith(NewImportMap, Imports(struct)))

visitTupleValue(n) ==
    LET l == RenderEach(n.items, <<>>)
        tuple == l.values
    IN  IF ~l.ok THEN VThrow(l.err)
        ELSE VOk(IF Len(tuple) = 1 THEN tuple[1].render
                 ELSE <<"[">> \o JoinWith(Renders(tuple), <<", ">>) \o <<"]">>,
                 mergeWith(NewImportMap, Imports(tuple)))

\* visit(value, renderValueNodeVisitor()).
RenderValue(n) ==
    CASE n.kind = "arrayValueNode" -> visitArrayValue(n)
      [] n.kind = "booleanValueNode" -> visitBooleanValue(n)
      [] n.kind = "bytesValueNode" -> visitBytesValue(n)
      [] n.kind = "constantValueNode" -> visitConstantValue(n)
      [] n.kind = "enumValueNode" -> visitEnumValue(n)
      [] n.kind = "mapEntryValueNode" -> visitMapEntryValue(n)
      [] n.kind = "mapValueNode" -> visitMapValue(n)
      [] n.kind = "noneValueNode" -> visitNoneValue(n)
      [] n.kind = "numberValueNode" -> visitNumberValue(n)
      [] n.kind = "publicKeyValueNode" -> visitPublicKeyValue(n)
      [] n.kind = "setValueNode" -> visitSetValue(n)
      [] n.kind = "someValueNode" -> visitSomeValue(n)
      [] n.kind = "stringValueNode" -> visitStringValue(n)
      [] n.kind = "structFieldValueNode" -> visitStructFieldValue(n)
      [] n.kind = "structValueNode" -> visitStructValue(n)
      [] n.kind = "tupleValueNode" -> visitTupleValue(n)

renderValueNode(value) == RenderValue(value)

-----------------------------------------------------------------------------
(* Inputs of the type manifest visitor: schema trees as @codama/nodes      *)
(* builds them (names are camelCase strings).                              *)

MaxVisits == 2          \* visits of one visitor instance in a run
MaxFixedSize == 2       \* largest size of a fixed-size wrapper or fixed count

POINT == <<"p", "o", "i", "n", "t">>
X == <<"x">>
Y == <<"y">>

\* struct { x: u8, y: option<u8> }, the example of the specification.
PointStruct ==
    structTypeNode(<<structFieldTypeNode(X, u8), structFieldTypeNode(Y, optionTypeNode(u8))>>)

MaxFields == 2          \* fields of a generated struct
MaxVariants == 2        \* variants of a generated data enum
MaxScalarVariants == 3  \* variants of a generated scalar enum

SeqsUpTo(S, n) == UNION {[1..k -> S] : k \in 0..n}
NonEmptySeqsUpTo(S, n) == UNION {[1..k -> S] : k \in 1..n}

u32 == numberTypeNode("u32", "le")
Inner == structTypeNode(<<structFieldTypeNode(X, u8), structFieldTypeNode(Y, u8)>>)

\* Field types with and without an option, at the field and below it.
FieldTypes ==
    {u8, Inner,
     optionTypeNode(u8), optionTypeNode(Inner), optionTypeNode(optionTypeNode(u8)),
     arrayTypeNode(optionTypeNode(u8), remainderCountNode),
     structTypeNode(<<structFieldTypeNode(X, optionTypeNode(u8))>>)}

FieldNames == <<X, Y, <<"z">> >>

FieldStructs ==
    {structTypeNode([i \in DOMAIN ts |-> structFieldTypeNode(FieldNames[i], ts[i])]) :
        ts \in NonEmptySeqsUpTo(FieldTypes, MaxFields)}

\* Numbers of either endianness, below one or two enclosing nodes.
NumberFormats == {"u8", "u32", "u128", "f32", "shortU16"}
Numbers == {numberTypeNode(f, e) : f \in NumberFormats, e \in {"le", "be"}}

Around(t) ==
    {optionTypeNode(t), setTypeNode(t),
     arrayTypeNode(t, fixedCountNode(MaxFixedSize)), arrayTypeNode(t, remainderCountNode),
     tupleTypeNode(<<t>>), tupleTypeNode(<<stringTypeNode, t>>),
     mapTypeNode(t, u8), mapTypeNode(stringTypeNode, t),
     structTypeNode(<<structFieldTypeNode(X, t)>>),
     structTypeNode(<<structFieldTypeNode(X, u8), structFieldTypeNode(Y, t)>>),
     enumTypeNode(<<enumEmptyVariantTypeNode(X), enumTupleVariantTypeNode(Y, tupleTypeNode(<<t>>))>>),
     enumTypeNode(<<enumStructVariantTypeNode(
                        Y, structTypeNode(<<structFieldTypeNode(X, t)>>))>>)}

\* A number that is the prefix of a count, of a size-prefix wrapper or the
\* size of a boolean, none of which the visitor descends into.
Prefixed(t) ==
    IF t.kind # "numberTypeNode" \/ t.format \notin {"u32", "shortU16"} THEN {}
    ELSE {arrayTypeNode(u8, prefixedCountNode(t)),
          sizePrefixTypeNode(stringTypeNode, t),
          sizePrefixTypeNode(bytesTypeNode, t),
          booleanTypeNode(t)}

Nested1 == UNION {Around(t) \cup Prefixed(t) : t \in Numbers}
Nested2 == UNION {Around(t) : t \in Nested1}
NumberTrees == Numbers \cup Nested1 \cup Nested2

\* Enums.
VariantNames == {<<"a">>, <<"b">>, <<"a", "B">>}
PayloadNames == {<<"a">>, <<"o", "n">>}
ScalarEnums ==
    {enumTypeNode([i \in DOMAIN ns |-> enumEmptyVariantTypeNode(ns[i])]) :
        ns \in SeqsUpTo(VariantNames, MaxScalarVariants)}

Payloads ==
    {tupleTypeNode(<<u8>>), tupleTypeNode(<<u8, stringTypeNode>>),
     tupleTypeNode(<<Inner>>), Inner}
Variants ==
    {enumEmptyVariantTypeNode(n) : n \in PayloadNames}
    \cup {enumTupleVariantTypeNode(<<"a">>, p) : p \in {q \in Payloads : q.kind = "tupleTypeNode"}}
    \cup {enumStructVariantTypeNode(n, p) :
            n \in PayloadNames, p \in {q \in Payloads : q.kind = "structTypeNode"}}
DataEnums ==
    {e \in {enumTypeNode(vs) : vs \in NonEmptySeqsUpTo(Variants, MaxVariants)} :
        ~isScalarEnum(e)}

\* Struct field paths A.B.C.
ChainNames == {<<"a">>, <<"a", "B">>, <<"b", "C">>, <<"c">>, <<"x", "1">>}
Chain(b, cc) ==
    structTypeNode(<<structFieldTypeNode(
        b, structTypeNode(<<structFieldTypeNode(
               cc, structTypeNode(<<structFieldTypeNode(X, u8)>>))>>))>>)
Chains == {Chain(b, cc) : b \in ChainNames, cc \in ChainNames}

Enums == ScalarEnums \cup DataEnums
EnumFields == {structTypeNode(<<structFieldTypeNode(Y, e)>>) : e \in Enums}

SHAPE == <<"s", "h", "a", "p", "e">>
INSTRUCTION_DATA ==
    <<"I", "n", "s", "t", "r", "u", "c", "t", "i", "o", "n", "D", "a", "t", "a">>

Named(t, names) ==
    {definedTypeNode(n, t) : n \in names} \cup
    (IF t.kind = "structTypeNode" THEN {accountNode(n, t) : n \in names} ELSE {})

\* Structs below the nodes that enclose a field's type, beside a sibling.
Deep == structTypeNode(<<structFieldTypeNode(Y, optionTypeNode(Inner))>>)
WrappedStructs ==
    {arrayTypeNode(Inner, remainderCountNode), setTypeNode(Deep), optionTypeNode(Deep),
     tupleTypeNode(<<Inner, Deep>>), mapTypeNode(Inner, Deep),
     enumTypeNode(<<enumStructVariantTypeNode(Y, Deep)>>)}
HoistTrees ==
    {definedTypeNode(POINT, structTypeNode(
        <<structFieldTypeNode(X, w), structFieldTypeNode(<<"z">>, Inner)>>)) :
        w \in WrappedStructs}

\* Two struct field paths b1.c1 and b2.c2 below one parent.
Fork(b1, c1, b2, c2) ==
    structTypeNode(
        <<structFieldTypeNode(b1, structTypeNode(<<structFieldTypeNode(c1, Inner)>>)),
          structFieldTypeNode(b2, structTypeNode(<<structFieldTypeNode(c2, Inner)>>))>>)
Forks ==
    {definedTypeNode(POINT, Fork(<<"a">>, <<"b", "C">>, <<"a", "B">>, <<"c">>)),
     definedTypeNode(POINT, Fork(<<"a">>, <<"c">>, <<"b">>, <<"c">>)),
     accountNode(<<"a">>, Fork(<<"a">>, <<"b", "C">>, <<"a", "B">>, <<"c">>))}

TypeNodes ==
    NumberTrees \cup FieldStructs \cup Enums
    \cup UNION {Named(t, {POINT}) : t \in FieldStructs}
    \cup {definedTypeNode(POINT, t) : t \in Enums \cup EnumFields}
    \cup UNION {Named(t, ChainNames) : t \in Chains}
    \cup HoistTrees \cup Forks

\* The options the render map visitor creates its visitors with
\* (part_001 lines 48, 110 and 238).
VisitorOptions ==
    {[parentName |-> Null, nestedStruct |-> FALSE],
     [parentName |-> pascalCase(SHAPE), nestedStruct |-> TRUE],
     [parentName |-> pascalCase(SHAPE) \o INSTRUCTION_DATA, nestedStruct |-> FALSE]}

-----------------------------------------------------------------------------
(* The run of a type manifest visitor: created with options, then handed   *)
(* the node MaxVisits times.                                               *)

NoProgram == [kind |-> "null"]

\* The variables of the components a run does not use.
RenderIdle ==
    /\ program = NoProgram
    /\ pending = <<>>
    /\ renders = <<>>
    /\ logs = <<>>
HostIdle ==
    /\ heap = <<>>
    /\ out = <<>>
    /\ files = {}
TypesIdle ==
    /\ options = [parentName |-> Null, nestedStruct |-> FALSE]
    /\ parentName = Null
    /\ nestedStruct = FALSE
    /\ inlineStruct = FALSE
    /\ parentSize = NoSize
    /\ isOptionField = FALSE

Context ==
    [parentName |-> parentName, nestedStruct |-> nestedStruct,
     inlineStruct |-> inlineStruct, parentSize |-> parentSize,
     isOptionField |-> isOptionField]

SetContext(c) ==
    /\ parentName' = c.parentName
    /\ nestedStruct' = c.nestedStruct
    /\ inlineStruct' = c.inlineStruct
    /\ parentSize' = c.parentSize
    /\ isOptionField' = c.isOptionField

\* getTypeManifestVisitor(options).
InitTypes ==
    /\ comp = "types"
    /\ pc = "ready"
    /\ node \in TypeNodes
    /\ options \in VisitorOptions
    /\ parentName = InitialContext(options).parentName
    /\ nestedStruct = InitialContext(options).nestedStruct
    /\ inlineStruct = InitialContext(options).inlineStruct
    /\ parentSize = InitialContext(options).parentSize
    /\ isOptionField = InitialContext(options).isOptionField
    /\ results = <<>>
    /\ RenderIdle
    /\ HostIdle

\* visit(node, visitor).
VisitNode ==
    /\ comp = "types"
    /\ Len(results) < MaxVisits
    /\ LET r == Visit(node, Context)
       IN  /\ results' = Append(results, r)
           /\ SetContext(r.ctx)
    /\ UNCHANGED <<comp, pc, node, options, renderVars, hostVars>>

NextTypes == VisitNode

SpecTypes == InitTypes /\ [][NextTypes]_vars

-----------------------------------------------------------------------------
(* The run of a shared type manifest visitor: the render map visitor       *)
(* creates one visitor and hands it a node, and then parts of that node    *)
(* (the type of a seed, of a field), without creating it anew.  out holds  *)
(* each visit: the node visited, the variables before it, the manifest.    *)

programLinkNode(name) == [kind |-> "programLinkNode", name |-> name]

\* definedTypeLinkNode(name, program): a link to a type of another program.
definedTypeLinkNodeIn(name, prog) ==
    [kind |-> "definedTypeLinkNode", name |-> name, program |-> programLinkNode(prog)]

OTHER_PROGRAM == <<"o", "t", "h", "e", "r">>
HOOKED == <<"h", "o", "o", "k", "e", "d">>

\* linkOverrides: the defined types the caller says live in another module.
LinkOverrides == {<<>>, <<[key |-> POINT, value |-> HOOKED]>>}

SharedOptions ==
    {[parentName |-> o.parentName, nestedStruct |-> o.nestedStruct, linkOverrides |-> l] :
        o \in VisitorOptions, l \in LinkOverrides}

Sizes == 0..MaxFixedSize

Wrapped(t) ==
    {fixedSizeTypeNode(t, n) : n \in Sizes} \cup {sizePrefixTypeNode(t, u32)}

\* Types that hold t one level down.
Holding(t) ==
    {arrayTypeNode(t, remainderCountNode), arrayTypeNode(t, fixedCountNode(1)),
     optionTypeNode(t), tupleTypeNode(<<t>>), mapTypeNode(stringTypeNode, t),
     structTypeNode(<<structFieldTypeNode(X, t)>>)}

SizedTrees ==
    LET leaves == {stringTypeNode, bytesTypeNode}
    IN  leaves
        \cup UNION {Wrapped(l) : l \in leaves}
        \cup UNION {Holding(l) : l \in leaves}
        \cup UNION {Wrapped(h) : h \in UNION {Holding(l) : l \in leaves}}
        \cup UNION {Wrapped(w) : w \in Wrapped(stringTypeNode)}

Booleans ==
    {booleanTypeNode(numberTypeNode(f, e)) : f \in {"u8", "i8", "u16"}, e \in {"le", "be"}}
    \cup {booleanTypeNode(fixedSizeTypeNode(numberTypeNode(f, "le"), 1)) : f \in {"u8", "i8"}}

Links ==
    {definedTypeLinkNode(POINT), definedTypeLinkNode(X),
     definedTypeLinkNodeIn(POINT, OTHER_PROGRAM)}

ScalarEnum == enumTypeNode(<<enumEmptyVariantTypeNode(X), enumEmptyVariantTypeNode(Y)>>)

NamedTrees ==
    LET named == {Inner, ScalarEnum,
                  enumTypeNode(<<enumTupleVariantTypeNode(X, tupleTypeNode(<<u8>>))>>)}
    IN  named
        \cup {structFieldTypeNode(X, u8),
              enumEmptyVariantTypeNode(X),
              enumTupleVariantTypeNode(X, tupleTypeNode(<<u8>>)),
              enumStructVariantTypeNode(X, Inner)}
        \cup {arrayTypeNode(t, remainderCountNode) : t \in named}
        \cup {optionTypeNode(t) : t \in named}
        \cup {definedTypeNode(POINT, t) : t \in named}
        \cup {definedTypeNode(POINT, arrayTypeNode(t, remainderCountNode)) : t \in named}
        \cup {definedTypeNode(POINT, u8), accountNode(POINT, Inner)}

\* Trees whose visit throws below a node that has changed the variables.
u32be == numberTypeNode("u32", "be")
ThrowingTrees ==
    {definedTypeNode(POINT, tupleTypeNode(<<stringTypeNode, fixedSizeTypeNode(u32be, 2)>>)),
     definedTypeNode(POINT, structTypeNode(<<structFieldTypeNode(X, u32be)>>)),
     definedTypeNode(POINT, tupleTypeNode(<<Inner, optionTypeNode(u32be)>>)),
     fixedSizeTypeNode(fixedSizeTypeNode(u32be, 1), 2),
     fixedSizeTypeNode(tupleTypeNode(<<sizePrefixTypeNode(stringTypeNode, u32), stringTypeNode>>), 2)}

SharedNodes == SizedTrees \cup Booleans \cup Links \cup NamedTrees \cup ThrowingTrees

\* The types the render map visitor visits on their own after the node.
Parts(n) ==
    CASE n.kind = "definedTypeNode" -> {n.type} \cup
             (IF n.type.kind = "arrayTypeNode" THEN {n.type.item} ELSE {}) \cup
             (IF n.type.kind = "tupleTypeNode" THEN Range(n.type.items) ELSE {})
      [] n.kind = "accountNode" -> {n.data}
      [] OTHER -> {}

InitShared ==
    /\ comp = "shared"
    /\ pc = "ready"
    /\ node \in SharedNodes
    /\ options \in SharedOptions
    /\ parentName = InitialContext(options).parentName
    /\ nestedStruct = InitialContext(options).nestedStruct
    /\ inlineStruct = InitialContext(options).inlineStruct
    /\ parentSize = InitialContext(options).parentSize
    /\ isOptionField = InitialContext(options).isOptionField
    /\ results = <<>>
    /\ RenderIdle
    /\ HostIdle

\* visit(n, typeManifestVisitor) with the variables as they are.
SharedVisit(n) ==
    /\ Len(out) < MaxVisits
    /\ LET r == Visit(n, Context)
       IN  /\ out' = Append(out, [node |-> n, before |-> Context, manifest |-> r])
           /\ SetContext(r.ctx)
    /\ UNCHANGED <<comp, pc, node, options, results, renderVars, heap, files>>

VisitWhole ==
    /\ comp = "shared"
    /\ SharedVisit(node)

VisitPart ==
    /\ comp = "shared"
    /\ \E t \in Parts(node) : SharedVisit(t)

NextShared ==
    \/ VisitWhole
    \/ VisitPart

SpecShared == InitShared /\ [][NextShared]_vars

-----------------------------------------------------------------------------
(* The run of the value renderer: renderValueNode is handed a value node.  *)

MaxNumber == 2          \* largest number a number value holds
MaxRenders == 2         \* calls of renderValueNode in a run

ALL_FORMATS ==
    {"f32", "f64", "i8", "i16", "i32", "i64", "i128",
     "u8", "u16", "u32", "u64", "u128", "shortU16"}

NumberValues == {numberValueNode(n) : n \in 0..MaxNumber}

ConstantNumbers ==
    {constantValueNode(numberTypeNode(f, e), v) :
        f \in ALL_FORMATS, e \in {"le", "be"}, v \in NumberValues}

ValueNodes ==
    ConstantNumbers
    \cup {constantValueNode(stringTypeNode, stringValueNode(<<"a", "b">>)),
          constantValueNode(bytesTypeNode, bytesValueNode("base16", <<1, 2>>)),
          constantValueNode(numberTypeNode("u8", "le"), stringValueNode(<<"a">>)),
          constantValueNode(publicKeyTypeNode, noneValueNode),
          booleanValueNode(TRUE), noneValueNode,
          someValueNode(numberValueNode(1)),
          publicKeyValueNode(<<"k">>),
          arrayValueNode(<<numberValueNode(1), numberValueNode(2)>>),
          tupleValueNode(<<numberValueNode(1)>>),
          tupleValueNode(<<numberValueNode(1), stringValueNode(<<"a">>)>>),
          setValueNode(<<numberValueNode(1)>>),
          mapValueNode(<<mapEntryValueNode(stringValueNode(<<"a">>), numberValueNode(1))>>),
          structValueNode(<<structFieldValueNode(X, numberValueNode(1)),
                            structFieldValueNode(Y, publicKeyValueNode(<<"k">>))>>),
          enumValueNode(POINT, <<"a">>, Undefined),
          enumValueNode(POINT, <<"a">>,
                        structValueNode(<<structFieldValueNode(X, numberValueNode(1))>>)),
          arrayValueNode(<<constantValueNode(numberTypeNode("u16", "be"), numberValueNode(1)),
                           constantValueNode(publicKeyTypeNode, noneValueNode)>>)}

InitValues ==
    /\ comp = "values"
    /\ pc = "ready"
    /\ node \in ValueNodes
    /\ results = <<>>
    /\ TypesIdle
    /\ RenderIdle
    /\ HostIdle

\* renderValueNode(value): the visitor keeps no state between calls.
RenderNode ==
    /\ comp = "values"
    /\ Len(results) < MaxRenders
    /\ results' = Append(results, renderValueNode(node))
    /\ UNCHANGED <<comp, pc, node, typeVars, renderVars, hostVars>>

NextValues == RenderNode

SpecValues == InitValues /\ [][NextValues]_vars

-----------------------------------------------------------------------------
(* The run of an ImportMap: a map built by add and addAlias is resolved    *)
(* against a dependency map, and the map that returns is resolved again.   *)

MaxImports == 2         \* identifiers added to the map
MaxAliases == 1         \* aliases added to the map
MaxDependencies == 2    \* keys of the dependency map given to the renderer
MaxResolves == 2        \* successive calls of resolveDependencyMap

K == <<"k">>
J == <<"j">>

Identifiers ==
    {<<"fmt">>, K \o <<"Foo">>, J \o <<"Foo">>,
     <<"generatedTypes", "Foo">>, <<"hooked", "a", "Foo">>, AG_BINARY}

AliasedIdentifiers == {K \o <<"Foo">>, AG_BINARY}

DependencyValues == {<<>>, <<"github.com/x/y">>, J, <<"generated", "sub">>}

\* Dependency maps: objects with distinct keys, in the order they are written.
DependencyMaps ==
    {d \in SeqsUpTo([key : {K, J}, value : DependencyValues], MaxDependencies) :
        \A a, b \in DOMAIN d : a # b => d[a].key # d[b].key}

ImportMaps ==
    {AddAliases(add(NewImportMap, is), as) :
        is \in {x \in SUBSET Identifiers : Cardinality(x) <= MaxImports},
        as \in SeqsUpTo([key : AliasedIdentifiers, value : {<<"al">>}], MaxAliases)}

InitImports ==
    /\ comp = "imports"
    /\ pc = "ready"
    /\ node \in [map : ImportMaps, dependencies : DependencyMaps]
    /\ results = <<>>
    /\ heap = <<node.map>>
    /\ out = <<>>
    /\ files = {}
    /\ TypesIdle
    /\ RenderIdle

\* this.resolveDependencyMap(dependencies) on the object r of the heap h: the
\* map it returns is a new object.
Heap_resolveDependencyMap(h, r, dependencies) ==
    Append(h, resolveDependencyMap(h[r], dependencies))

\* map.resolveDependencyMap(dependencies), on the map the call before returned.
Resolve ==
    /\ comp = "imports"
    /\ Len(results) < MaxResolves
    /\ heap' = Heap_resolveDependencyMap(heap, Len(heap), node.dependencies)
    /\ results' = Append(results, heap'[Len(heap')])
    /\ UNCHANGED <<comp, pc, node, typeVars, renderVars, out, files>>

\* map.toString(dependencies), on any of the maps of the run; out holds the
\* text of the latest call.
RenderImports ==
    /\ comp = "imports"
    /\ \E r \in DOMAIN heap :
         out' = <<[receiver |-> r, text |-> toString(heap[r], node.dependencies)]>>
    /\ UNCHANGED <<comp, pc, node, results, typeVars, renderVars, heap, files>>

NextImports ==
    \/ Resolve
    \/ RenderImports

SpecImports == InitImports /\ [][NextImports]_vars

-----------------------------------------------------------------------------
(* The merge run: three ImportMaps on the heap, merged into one another.   *)
(* mergeWith changes its receiver in place and returns it; results holds   *)
(* the latest call and the heap before it.                                 *)

MaxOthers == 2          \* arguments of one call of mergeWith

\* The ImportMaps of the run: A, B and C.
Objects == {1, 2, 3}

MergeMaps ==
    {NewImportMap,
     add(NewImportMap, {<<"fmt">>}),
     addAlias(add(NewImportMap, {<<"fmt">>, AG_BINARY}), AG_BINARY, <<"al">>),
     addAlias(add(NewImportMap, {K \o <<"Foo">>}), AG_BINARY, <<"b2">>)}

InitMerge ==
    /\ comp = "merge"
    /\ pc = "ready"
    /\ node \in [Objects -> MergeMaps]
    /\ results = <<>>
    /\ heap = node
    /\ out = <<>>
    /\ files = {}
    /\ TypesIdle
    /\ RenderIdle

RECURSIVE Heap_mergeWith(_, _, _)
\* h[r].mergeWith(...others), others the objects of the heap at the indexes
\* os: each is read when its turn comes, the receiver is written in place.
Heap_mergeWith(h, r, os) ==
    IF os = <<>> THEN h
    ELSE Heap_mergeWith([h EXCEPT ![r] = mergeWith(h[r], <<h[Head(os)]>>)], r, Tail(os))

Merge ==
    /\ comp = "merge"
    /\ \E r \in DOMAIN heap :
       \E os \in SeqsUpTo(DOMAIN heap, MaxOthers) \ {<<>>} :
         /\ \A i, j \in DOMAIN os : i # j => os[i] # os[j]
         /\ heap' = Heap_mergeWith(heap, r, os)
         /\ results' = <<[receiver |-> r, others |-> os, before |-> heap]>>
    /\ UNCHANGED <<comp, pc, node, typeVars, renderVars, out, files>>

NextMerge == Merge

SpecMerge == InitMerge /\ [][NextMerge]_vars

-----------------------------------------------------------------------------
(* The render map visitor (src/unnamed/part_001, getRenderMapVisitor).     *)
(*                                                                         *)
(* A render map is the set of its entries [path, content]; no two entries  *)
(* of a map have the same path.  The content of an entry is the template   *)
(* and the context render is called with.  The handlers that visit with    *)
(* the shared typeManifestVisitor take its variables as c and return them. *)

errorNode(name) == [kind |-> "errorNode", name |-> name]
instructionAccountNode(name) == [kind |-> "instructionAccountNode", name |-> name]
\* An argument without a defaultValueStrategy.
NoStrategy == "undefined"
instructionArgumentNode(name, type, defaultValue, defaultValueStrategy) ==
    [kind |-> "instructionArgumentNode", name |-> name, type |-> type,
     defaultValue |-> defaultValue, defaultValueStrategy |-> defaultValueStrategy]
instructionNode(name, accounts, arguments, subInstructions) ==
    [kind |-> "instructionNode", name |-> name, accounts |-> accounts,
     arguments |-> arguments, subInstructions |-> subInstructions]
programNode(name, accounts, definedTypes, instructions, errors) ==
    [kind |-> "programNode", name |-> name, accounts |-> accounts,
     definedTypes |-> definedTypes, instructions |-> instructions, errors |-> errors]
rootNode(prog, additionalPrograms) ==
    [kind |-> "rootNode", program |-> prog, additionalPrograms |-> additionalPrograms]

\* @codama/nodes: the programs, accounts and defined types of a root.
getAllPrograms(root) == <<root.program>> \o root.additionalPrograms
getAllAccounts(root) ==
    FlatMap([i \in DOMAIN getAllPrograms(root) |-> getAllPrograms(root)[i].accounts])
getAllDefinedTypes(root) ==
    FlatMap([i \in DOMAIN getAllPrograms(root) |-> getAllPrograms(root)[i].definedTypes])

RECURSIVE InstructionWithSubs(_, _)
\* @codama/nodes: an instruction with its sub-instructions, or their leaves.
InstructionWithSubs(ix, leavesOnly) ==
    IF ix.subInstructions = <<>> THEN <<ix>>
    ELSE LET subs == FlatMap([i \in DOMAIN ix.subInstructions |->
                                InstructionWithSubs(ix.subInstructions[i], leavesOnly)])
         IN  IF leavesOnly THEN subs ELSE <<ix>> \o subs

getAllInstructionsWithSubs(n, leavesOnly) ==
    LET instructions ==
            IF n.kind = "programNode" THEN n.instructions
            ELSE FlatMap([i \in DOMAIN getAllPrograms(n) |-> getAllPrograms(n)[i].instructions])
    IN  FlatMap([i \in DOMAIN instructions |-> InstructionWithSubs(instructions[i], leavesOnly)])

\* @codama/nodes: the struct whose fields are the arguments.
structTypeNodeFromInstructionArgumentNodes(arguments) ==
    structTypeNode([i \in DOMAIN arguments |->
                        structFieldTypeNode(arguments[i].name, arguments[i].type)])

\* @codama/renderers-core: createRenderMap(), createRenderMap(path, content)
\* and createRenderMap(entries), which leaves out the undefined entries.
EmptyRenderMap == {}
createRenderMap(path, content) == {[path |-> path, content |-> content]}
createRenderMapOfEntries(entries) == {e \in entries : e.content # Undefined}

Paths(renderMap) == {e.path : e \in renderMap}

RECURSIVE mergeRenderMaps(_)
\* @codama/renderers-core: the entries of every map are set on a copy of the
\* first, in order; setting a path that is there replaces its content.
mergeRenderMaps(renderMaps) ==
    IF renderMaps = <<>> THEN EmptyRenderMap
    ELSE LET n == Len(renderMaps)
             merged == mergeRenderMaps(SubSeq(renderMaps, 1, n - 1))
         IN  {e \in merged : e.path \notin Paths(renderMaps[n])} \cup renderMaps[n]

addToRenderMap(renderMap, path, content) ==
    mergeRenderMaps(<<renderMap, createRenderMap(path, content)>>)

\* utils: render(template, context).  The text of the templates is not
\* modelled: the content is the template's name with its context.
render(template, context) == [template |-> template, ctx |-> context]

\* utils: getDiscriminatorConstants, for a node without discriminators.
getDiscriminatorConstants(discriminatorNodes) == [render |-> <<>>, imports |-> NewImportMap]

\* options.renderParentInstructions ?? false and options.dependencyMap ?? {}.
renderParentInstructions == FALSE
dependencyMap == <<>>

GENERATED == <<"g", "e", "n", "e", "r", "a", "t", "e", "d">>

\* snakeCase(program?.name ?? 'generated').
PackageName(prog) == snakeCase(IF prog = NoProgram THEN GENERATED ELSE prog.name)

Names(list) == [i \in DOMAIN list |-> list[i].name]

\* Array.prototype.indexOf, for an element of the array.
indexOf(a, e) == CHOOSE i \in DOMAIN a : a[i] = e /\ \A j \in 1..(i - 1) : a[j] # e

RECURSIVE Pick(_, _, _)
\* The elements of a at the indices of I from i on, in order.
Pick(a, I, i) ==
    IF i > Len(a) THEN <<>>
    ELSE (IF i \in I THEN <<a[i]>> ELSE <<>>) \o Pick(a, I, i + 1)

getConflictsForInstructionAccountsAndArgs(instruction) ==
    LET allNames == Names(instruction.accounts) \o Names(instruction.arguments)
        duplicates ==
            Pick(allNames, {i \in DOMAIN allNames : indexOf(allNames, allNames[i]) # i}, 1)
    IN  Pick(duplicates, {i \in DOMAIN duplicates : indexOf(duplicates, duplicates[i]) = i}, 1)

\* manifest.type.slice(1), on the tokens of a type that starts with '*'.
InnerOptionType(type, manifest) ==
    IF type.kind = "optionTypeNode" THEN Tail(manifest.type) ELSE Null

ARG == <<"A", "r", "g">>

RECURSIVE InstructionArgs(_, _, _, _)
\* node.arguments.forEach of visitInstruction; a throw ends the loop.
InstructionArgs(n, arguments, conflicts, acc) ==
    IF arguments = <<>> THEN acc
    ELSE LET argument == Head(arguments)
             argumentVisitor ==
                InitialContext([parentName |-> pascalCase(n.name) \o INSTRUCTION_DATA,
                                nestedStruct |-> TRUE])
             manifest == Visit(argument.type, argumentVisitor)
             hasDefaultValue == argument.defaultValue # Undefined
             value == renderValueNode(argument.defaultValue)
             omitted == argument.defaultValueStrategy = "omitted"
             name == IF \E i \in DOMAIN conflicts : conflicts[i] = argument.name
                     THEN argument.name \o ARG ELSE argument.name
         IN  IF ~manifest.ok THEN [acc EXCEPT !.ok = FALSE, !.err = manifest.err]
             ELSE IF hasDefaultValue /\ ~value.ok
             THEN [acc EXCEPT !.ok = FALSE, !.err = value.err]
             ELSE InstructionArgs(n, Tail(arguments), conflicts,
                    [ok |-> TRUE, err |-> "",
                     imports |-> mergeWith(acc.imports,
                                    <<manifest.imports>> \o
                                    (IF hasDefaultValue THEN <<value.imports>> ELSE <<>>)),
                     hasArgs |-> acc.hasArgs \/ ~omitted,
                     hasOptional |-> acc.hasOptional \/ (hasDefaultValue /\ ~omitted),
                     instructionArgs |-> Append(acc.instructionArgs,
                        [default |-> hasDefaultValue /\ omitted,
                         innerOptionType |-> InnerOptionType(argument.type, manifest),
                         name |-> name,
                         optional |-> hasDefaultValue /\ ~omitted,
                         type |-> manifest.type,
                         value |-> IF hasDefaultValue THEN value.render ELSE Null])])

\* What a handler of the render map visitor returns: its render map, the
\* variables of the shared typeManifestVisitor and the warnings it logged.
Rendered(renderMap, c, warnings) ==
    [ok |-> TRUE, err |-> "", renders |-> renderMap, ctx |-> c, logs |-> warnings]
Aborted(msg, c, warnings) ==
    [ok |-> FALSE, err |-> msg, renders |-> EmptyRenderMap, ctx |-> c, logs |-> warnings]

RECURSIVE AccountFields(_, _, _)
\* fields.forEach of visitAccount; a throw ends the loop.
AccountFields(n, fields, acc) ==
    IF fields = <<>> THEN acc
    ELSE LET field == Head(fields)
             fieldTypeVisitor ==
                InitialContext([parentName |-> pascalCase(n.name), nestedStruct |-> TRUE])
             manifest == Visit(field.type, fieldTypeVisitor)
         IN  IF ~manifest.ok THEN [acc EXCEPT !.ok = FALSE, !.err = manifest.err]
             ELSE AccountFields(n, Tail(fields),
                    [acc EXCEPT !.accountFields = Append(@,
                        [innerOptionType |-> InnerOptionType(field.type, manifest),
                         name |-> field.name])])

\* visitAccount of the render map visitor; the accounts of the model's trees
\* link no pda, so that there are no seeds.
RenderMap_visitAccount(n, prog, c) ==
    LET typeManifest == Visit(n, c)
        imports == add(typeManifest.imports, {AG_BINARY})
        fields == resolveNestedTypeNode(n.data).fields
        discriminatorConstants == getDiscriminatorConstants(<<>>)
        af == AccountFields(n, fields, [ok |-> TRUE, err |-> "", accountFields |-> <<>>])
    IN  IF ~typeManifest.ok THEN Aborted(typeManifest.err, typeManifest.ctx, <<>>)
        ELSE IF ~af.ok THEN Aborted(af.err, typeManifest.ctx, <<>>)
        ELSE Rendered(
                createRenderMap(<<"account_">> \o snakeCase(n.name) \o <<".go">>,
                    render("accountsPage.njk",
                        [account |-> n,
                         accountFields |-> af.accountFields,
                         constantSeeds |-> <<>>,
                         discriminatorConstants |-> discriminatorConstants.render,
                         hasVariableSeeds |-> FALSE,
                         imports |-> mergeWith(imports, <<discriminatorConstants.imports>>),
                         packageName |-> PackageName(prog),
                         pda |-> Undefined,
                         program |-> prog,
                         seeds |-> <<>>,
                         typeManifest |-> [type |-> typeManifest.type,
                                           nestedStructs |-> typeManifest.nestedStructs,
                                           imports |-> imports]])),
                typeManifest.ctx, <<>>)

RenderMap_visitDefinedType(n, prog, c) ==
    LET typeManifest == Visit(n, c)
        imports == mergeWith(NewImportMap, <<typeManifest.imports>>)
    IN  IF ~typeManifest.ok THEN Aborted(typeManifest.err, typeManifest.ctx, <<>>)
        ELSE Rendered(
                createRenderMap(<<"type_">> \o snakeCase(n.name) \o <<".go">>,
                    render("definedTypesPage.njk",
                        [definedType |-> n,
                         imports |-> imports,
                         packageName |-> PackageName(prog),
                         typeManifest |-> [type |-> typeManifest.type,
                                           nestedStructs |-> typeManifest.nestedStructs,
                                           imports |-> typeManifest.imports]])),
                typeManifest.ctx, <<>>)

RenderMap_visitInstruction(n, prog, c) ==
    LET imports0 ==
            add(NewImportMap,
                {AG_SOLANAGO, AG_BINARY} \cup
                (IF Len(n.accounts) > 0 THEN {<<"fmt">>} ELSE {}))
        accountsAndArgsConflicts == getConflictsForInstructionAccountsAndArgs(n)
        warnings ==
            IF Len(accountsAndArgsConflicts) > 0
            THEN <<[instruction |-> n.name, conflicts |-> accountsAndArgsConflicts]>>
            ELSE <<>>
        discriminatorConstants == getDiscriminatorConstants(<<>>)
        args == InstructionArgs(n, n.arguments, accountsAndArgsConflicts,
                    [ok |-> TRUE, err |-> "", imports |-> imports0, hasArgs |-> FALSE,
                     hasOptional |-> FALSE, instructionArgs |-> <<>>])
        struct == structTypeNodeFromInstructionArgumentNodes(n.arguments)
        structVisitor ==
            InitialContext([parentName |-> pascalCase(n.name) \o INSTRUCTION_DATA,
                            nestedStruct |-> FALSE])
        typeManifest == Visit(struct, structVisitor)
    IN  IF ~args.ok THEN Aborted(args.err, c, warnings)
        ELSE IF ~typeManifest.ok THEN Aborted(typeManifest.err, c, warnings)
        ELSE Rendered(
                createRenderMap(<<"instruction_">> \o snakeCase(n.name) \o <<".go">>,
                    render("instructionsPage.njk",
                        [discriminatorConstants |-> discriminatorConstants.render,
                         hasArgs |-> args.hasArgs,
                         hasOptional |-> args.hasOptional,
                         imports |-> mergeWith(args.imports, <<discriminatorConstants.imports>>),
                         instruction |-> n,
                         instructionArgs |-> args.instructionArgs,
                         packageName |-> PackageName(prog),
                         program |-> prog,
                         typeManifest |-> [type |-> typeManifest.type,
                                           nestedStructs |-> typeManifest.nestedStructs,
                                           imports |-> typeManifest.imports]])),
                c, warnings)

\* ProgramChildren with the defined types visited before the accounts.
ProgramChildren_TypesFirst(n) ==
    n.definedTypes \o n.accounts \o getAllInstructionsWithSubs(n, ~renderParentInstructions)

\* The children visitProgram visits, in the order it visits them.
ProgramChildren(n) ==
    n.accounts \o n.definedTypes \o getAllInstructionsWithSubs(n, ~renderParentInstructions)

\* visitProgram once its children are visited: the merge and the errors.
RenderMap_visitProgram(n, childRenders) ==
    LET merged == mergeRenderMaps(childRenders)
    IN  IF Len(n.errors) > 0
        THEN addToRenderMap(merged, <<"errors.go">>,
                render("errorsPage.njk",
                    [errors |-> n.errors,
                     imports |-> NewImportMap,
                     packageName |-> snakeCase(n.name),
                     program |-> n]))
        ELSE merged

hasAnythingToExport(n) ==
    \/ Len(getAllPrograms(n)) > 0
    \/ Len(getAllAccounts(n)) > 0
    \/ Len(getAllInstructionsWithSubs(n, ~renderParentInstructions)) > 0
    \/ Len(getAllDefinedTypes(n)) > 0

\* The first map visitRoot merges: the index file, or no file.
RootIndex(n) ==
    LET programsToExport == getAllPrograms(n)
        ctx == [accountsToExport |-> getAllAccounts(n),
                definedTypesToExport |-> getAllDefinedTypes(n),
                hasAnythingToExport |-> hasAnythingToExport(n),
                instructionsToExport |->
                    getAllInstructionsWithSubs(n, ~renderParentInstructions),
                packageName |-> IF Len(programsToExport) > 0
                                THEN snakeCase(programsToExport[1].name)
                                ELSE GENERATED,
                programsToExport |-> programsToExport,
                root |-> n]
    IN  createRenderMapOfEntries(
            {[path |-> <<"instructions.go">>,
              content |-> IF hasAnythingToExport(n)
                          THEN render("instructionsMod.njk", ctx)
                          ELSE Undefined]})

\* visitRoot once the programs are visited: the merge it returns.
RenderMap_visitRoot(index, programRenders) ==
    mergeRenderMaps(<<index>> \o programRenders)

-----------------------------------------------------------------------------
(* The run of the render map visitor on a root: visitRoot makes the index, *)
(* visits the programs in order, each program visits its children in       *)
(* order, and every visit returns its render map to the visit above it.    *)
(* A throw anywhere ends the run without a render map.                     *)

MaxNames == 2           \* accounts, and arguments, of a generated instruction

A == <<"a">>
B == <<"b">>
P == <<"p">>
Q == <<"q">>
IX == <<"i", "x">>

NameLists == SeqsUpTo({A, B}, MaxNames)

\* The k-th argument of a generated instruction: a u8, then an option.
ArgumentType(k) == IF k = 1 THEN u8 ELSE optionTypeNode(u8)

Instructions ==
    {instructionNode(IX,
        [i \in DOMAIN accounts |-> instructionAccountNode(accounts[i])],
        [i \in DOMAIN arguments |->
            instructionArgumentNode(arguments[i], ArgumentType(i), Undefined, NoStrategy)],
        <<>>) :
        accounts \in NameLists, arguments \in NameLists}

\* An instruction with a default value and a group of sub-instructions.
Transfer ==
    instructionNode(<<"t">>, <<instructionAccountNode(A)>>,
        <<instructionArgumentNode(B, u8, numberValueNode(1), "omitted")>>, <<>>)
Group == instructionNode(<<"g">>, <<>>, <<>>, <<Transfer>>)

AccountLists == {<<>>, <<accountNode(A, Inner)>>}
DefinedTypeLists ==
    {<<>>, <<definedTypeNode(A, PointStruct)>>,
     <<definedTypeNode(B, numberTypeNode("u32", "be"))>>}
InstructionLists == {<<>>, <<Group>>}
ErrorLists == {<<>>, <<errorNode(A)>>}

Programs(name) ==
    {programNode(name, accounts, definedTypes, instructions, errors) :
        accounts \in AccountLists, definedTypes \in DefinedTypeLists,
        instructions \in InstructionLists, errors \in ErrorLists}

\* Instructions with an argument whose type is a struct written in place.
InlineArgumentInstructions ==
    {instructionNode(IX, <<>>,
        <<instructionArgumentNode(A, Inner, Undefined, NoStrategy)>>, <<>>),
     instructionNode(IX, <<>>,
        <<instructionArgumentNode(A, u8, Undefined, NoStrategy),
          instructionArgumentNode(B, optionTypeNode(Inner), Undefined, NoStrategy)>>, <<>>)}

Roots ==
    {rootNode(programNode(P, <<>>, <<>>, <<ix>>, <<>>), <<>>) :
        ix \in Instructions \cup InlineArgumentInstructions}
    \cup {rootNode(p, <<>>) : p \in Programs(P)}
    \cup {rootNode(p, <<q>>) : p \in Programs(P), q \in Programs(Q)}

InitRender ==
    /\ comp = "render"
    /\ pc = "root"
    /\ node \in Roots
    /\ results = <<>>
    /\ TypesIdle
    /\ HostIdle
    /\ program = NoProgram
    /\ pending = [programs |-> <<>>, children |-> <<>>]
    /\ renders = [index |-> EmptyRenderMap, programs |-> <<>>, children |-> <<>>]
    /\ logs = <<>>

\* visitRoot up to its first visit of a program.
EnterRoot ==
    /\ comp = "render"
    /\ pc = "root"
    /\ renders' = [renders EXCEPT !.index = RootIndex(node)]
    /\ pending' = [pending EXCEPT !.programs = getAllPrograms(node)]
    /\ pc' = "programs"
    /\ UNCHANGED <<comp, node, results, typeVars, program, logs, hostVars>>

\* visitProgram up to its first visit of a child.
EnterProgram ==
    /\ comp = "render"
    /\ pc = "programs"
    /\ pending.programs # <<>>
    /\ program' = Head(pending.programs)
    /\ pending' = [programs |-> Tail(pending.programs),
                   children |-> ProgramChildren(Head(pending.programs))]
    /\ renders' = [renders EXCEPT !.children = <<>>]
    /\ pc' = "children"
    /\ UNCHANGED <<comp, node, results, typeVars, logs, hostVars>>

\* What the visit of a child leaves behind: its render map, or the throw.
Return(r) ==
    /\ SetContext(r.ctx)
    /\ logs' = logs \o r.logs
    /\ IF r.ok
       THEN /\ renders' = [renders EXCEPT !.children = Append(@, r.renders)]
            /\ pending' = [pending EXCEPT !.children = Tail(@)]
            /\ UNCHANGED <<pc, results>>
       ELSE /\ pc' = "failed"
            /\ results' = <<[ok |-> FALSE, err |-> r.err]>>
            /\ UNCHANGED <<renders, pending>>
    /\ UNCHANGED <<comp, node, options, program, hostVars>>

VisitAccount ==
    /\ comp = "render"
    /\ pc = "children"
    /\ pending.children # <<>>
    /\ Head(pending.children).kind = "accountNode"
    /\ Return(RenderMap_visitAccount(Head(pending.children), program, Context))

VisitDefinedType ==
    /\ comp = "render"
    /\ pc = "children"
    /\ pending.children # <<>>
    /\ Head(pending.children).kind = "definedTypeNode"
    /\ Return(RenderMap_visitDefinedType(Head(pending.children), program, Context))

VisitInstruction ==
    /\ comp = "render"
    /\ pc = "children"
    /\ pending.children # <<>>
    /\ Head(pending.children).kind = "instructionNode"
    /\ Return(RenderMap_visitInstruction(Head(pending.children), program, Context))

\* visitProgram from the return of its last child on.
LeaveProgram ==
    /\ comp = "render"
    /\ pc = "children"
    /\ pending.children = <<>>
    /\ renders' = [renders EXCEPT
                     !.programs = Append(@, RenderMap_visitProgram(program, renders.children)),
                     !.children = <<>>]
    /\ program' = NoProgram
    /\ pc' = "programs"
    /\ UNCHANGED <<comp, node, results, typeVars, pending, logs, hostVars>>

\* visitRoot from the return of its last program on.
LeaveRoot ==
    /\ comp = "render"
    /\ pc = "programs"
    /\ pending.programs = <<>>
    /\ results' = <<[ok |-> TRUE, err |-> "",
                     renders |-> RenderMap_visitRoot(renders.index, renders.programs)]>>
    /\ pc' = "done"
    /\ UNCHANGED <<comp, node, typeVars, renderVars, hostVars>>

NextRender ==
    \/ EnterRoot
    \/ EnterProgram
    \/ VisitAccount
    \/ VisitDefinedType
    \/ VisitInstruction
    \/ LeaveProgram
    \/ LeaveRoot

SpecRender == InitRender /\ [][NextRender]_vars

-----------------------------------------------------------------------------
(* The run of renderVisitor (src/unnamed/part_000): the output directory   *)
(* is deleted, the render map of the root is written, the formatter is     *)
(* run.  files is the content of the output directory; results is the      *)
(* steps taken, each with the files it left; the process gofmt is the      *)
(* environment: it is missing, cannot be started, or runs, writes what it  *)
(* has to say and may rewrite the files in place.                          *)

\* visit(n, self) for a child of prog.
VisitChild(n, prog, c) ==
    CASE n.kind = "accountNode" -> RenderMap_visitAccount(n, prog, c)
      [] n.kind = "definedTypeNode" -> RenderMap_visitDefinedType(n, prog, c)
      [] n.kind = "instructionNode" -> RenderMap_visitInstruction(n, prog, c)

\* The state of a sequence of visits after the visit that returned r.
After(acc, r) ==
    [ok |-> r.ok, err |-> r.err, ctx |-> r.ctx,
     renders |-> IF r.ok THEN Append(acc.renders, r.renders) ELSE acc.renders,
     logs |-> acc.logs \o r.logs]

RECURSIVE VisitChildren(_, _, _)
\* The visits of the children of prog, in order; a throw ends them.
VisitChildren(children, prog, acc) ==
    IF children = <<>> \/ ~acc.ok THEN acc
    ELSE CHOOSE done \in
            {VisitChildren(Tail(children), prog, next) :
                next \in {After(acc, r) : r \in {VisitChild(Head(children), prog, acc.ctx)}}} :
            TRUE

RECURSIVE VisitPrograms(_, _)
\* The visits of the programs of a root, in order; a throw ends them.
VisitPrograms(programs, acc) ==
    IF programs = <<>> \/ ~acc.ok THEN acc
    ELSE CHOOSE done \in
            {VisitPrograms(Tail(programs), next) :
                next \in {[ok |-> r.ok, err |-> r.err, ctx |-> r.ctx, logs |-> r.logs,
                           renders |->
                              IF r.ok
                              THEN Append(acc.renders,
                                          RenderMap_visitProgram(Head(programs), r.renders))
                              ELSE acc.renders] :
                          r \in {VisitChildren(ProgramChildren(Head(programs)), Head(programs),
                                               [acc EXCEPT !.renders = <<>>])}}} :
            TRUE

\* visit(root, getRenderMapVisitor(options)): the render map, or the throw.
getRenderMap(root) ==
    CHOOSE done \in
        {IF ~r.ok THEN Aborted(r.err, r.ctx, r.logs)
         ELSE Rendered(RenderMap_visitRoot(RootIndex(root), r.renders), r.ctx, r.logs) :
            r \in {VisitPrograms(getAllPrograms(root),
                      [ok |-> TRUE, err |-> "", renders |-> <<>>, logs |-> <<>>,
                       ctx |-> InitialContext([parentName |-> Null,
                                               nestedStruct |-> FALSE])])}} :
        TRUE

\* option ?? true, for an option that is "undefined", "true" or "false".
OrTrue(option) == option # "false"

\* @codama/renderers-core: removes the directory and all it holds.
deleteDirectory(dir) == {}

\* @codama/renderers-core: writes every entry of the map as a file, over the
\* file of the same path if there is one.
writeRenderMap(renderMap, dir) ==
    {f \in dir : f.path \notin Paths(renderMap)} \cup renderMap

\* gofmt -w: every file of the directory rewritten in place.
Gofmt(dir) == {[path |-> f.path, content |-> [gofmt |-> f.content]] : f \in dir}

ENOENT == "spawnSync gofmt ENOENT"
EACCES == "spawnSync gofmt EACCES"
NoError == "undefined"

\* What spawnSync can return: an error and no output, or the output of the
\* process, which may have rewritten the files.
SpawnResults ==
    [error : {ENOENT, EACCES}, stdout : {<<>>}, stderr : {<<>>}, rewrote : {FALSE}]
    \cup [error : {NoError}, stdout : {<<>>, <<"formatted">>},
          stderr : {<<>>, <<"syntax error">>}, rewrote : BOOLEAN]

logWarn(message) == [level |-> "warn", message |-> message]
logError(message) == [level |-> "error", message |-> message]

\* runFormatter logging stderr as a warning.
runFormatter_WarnOnly(cmd, spawned) ==
    IF spawned.error = ENOENT
    THEN <<logWarn(<<"Could not find ", cmd, ", skipping formatting.">>)>>
    ELSE (IF Len(spawned.stdout) > 0
          THEN <<logWarn(<<"(gofmt) ">> \o spawned.stdout)>> ELSE <<>>)
         \o (IF Len(spawned.stderr) > 0
             THEN <<logWarn(<<"(gofmt) ">> \o spawned.stderr)>> ELSE <<>>)

\* runFormatter(cmd, args), spawnSync having returned spawned: what it logs.
runFormatter(cmd, spawned) ==
    IF spawned.error = ENOENT
    THEN <<logWarn(<<"Could not find ", cmd, ", skipping formatting.">>)>>
    ELSE (IF Len(spawned.stdout) > 0
          THEN <<logWarn(<<"(gofmt) ">> \o spawned.stdout)>> ELSE <<>>)
         \o (IF Len(spawned.stderr) > 0
             THEN <<logError(<<"(gofmt) ">> \o spawned.stderr)>> ELSE <<>>)

RenderOptions ==
    [deleteFolderBeforeRendering : {"undefined", "true", "false"},
     formatCode : {"undefined", "true", "false"}]

OLD == <<"o", "l", "d", ".go">>
ACCOUNT_A == <<"account_">> \o A \o <<".go">>
OldFile(path) == [path |-> path, content |-> render("old", <<>>)]

\* What the output directory holds before the run.
Directories == {{}, {OldFile(OLD), OldFile(ACCOUNT_A)}}

InitRun ==
    /\ comp = "run"
    /\ pc = "delete"
    /\ node \in [root : {rootNode(p, <<>>) : p \in Programs(P)},
                 options : RenderOptions,
                 directory : Directories]
    /\ files = node.directory
    /\ results = <<>>
    /\ logs = <<>>
    /\ heap = <<>>
    /\ out = <<>>
    /\ program = NoProgram
    /\ pending = <<>>
    /\ renders = <<>>
    /\ TypesIdle

Step(name, spawned) == [step |-> name, files |-> files', spawned |-> spawned]

\* if (options.deleteFolderBeforeRendering ?? true) deleteDirectory(path).
DeleteFolder ==
    /\ comp = "run"
    /\ pc = "delete"
    /\ IF OrTrue(node.options.deleteFolderBeforeRendering)
       THEN /\ files' = deleteDirectory(files)
            /\ results' = Append(results, Step("deleteDirectory", NoError))
       ELSE UNCHANGED <<files, results>>
    /\ pc' = "write"
    /\ UNCHANGED <<comp, node, typeVars, renderVars, heap, out>>

\* visit(root, writeRenderMapVisitor(getRenderMapVisitor(options), path)).
WriteRenderMap ==
    /\ comp = "run"
    /\ pc = "write"
    /\ \E r \in {getRenderMap(node.root)} :
           /\ logs' = logs \o r.logs
           /\ IF r.ok
              THEN /\ files' = writeRenderMap(r.renders, files)
                   /\ results' = Append(results, Step("writeRenderMap", NoError))
                   /\ pc' = "format"
              ELSE /\ pc' = "failed"
                   /\ UNCHANGED <<files, results>>
    /\ UNCHANGED <<comp, node, typeVars, program, pending, renders, heap, out>>

\* if (options.formatCode ?? true) runFormatter('gofmt', ['-w', path]).
RunFormatter ==
    /\ comp = "run"
    /\ pc = "format"
    /\ IF OrTrue(node.options.formatCode)
       THEN \E spawned \in SpawnResults :
               /\ files' = IF spawned.rewrote THEN Gofmt(files) ELSE files
               /\ logs' = logs \o runFormatter("gofmt", spawned)
               /\ results' = Append(results, Step("runFormatter", spawned))
       ELSE UNCHANGED <<files, logs, results>>
    /\ pc' = "done"
    /\ UNCHANGED <<comp, node, typeVars, program, pending, renders, heap, out>>

NextRun ==
    \/ DeleteFolder
    \/ WriteRenderMap
    \/ RunFormatter

SpecRun == InitRun /\ [][NextRun]_vars

-----------------------------------------------------------------------------
(* The link registry of the render map visitor (src/unnamed/part_001).     *)
(* linkables, the LinkableDictionary, is the set of its entries, one for   *)
(* a program, a kind and a name; stack, the NodeStack, is the path of the  *)
(* nodes being visited.  Every visit made through the returned visitor     *)
(* passes recordLinkablesOnFirstVisitVisitor, then recordNodeStackVisitor, *)
(* then the handler (@codama/visitors-core).                               *)

pdaNode(name, seeds) == [kind |-> "pdaNode", name |-> name, seeds |-> seeds]
pdaLinkNode(name, prog) == [kind |-> "pdaLinkNode", name |-> name, program |-> prog]
variablePdaSeedNode(name, type) == [kind |-> "variablePdaSeedNode", name |-> name, type |-> type]
\* accountNode({ name, data, pda }) and programNode({ name, pdas, accounts }).
accountNodeWithPda(name, data, pda) ==
    [kind |-> "accountNode", name |-> name, data |-> data, pda |-> pda]
programNodeWithPdas(name, pdas, accounts) ==
    [kind |-> "programNode", name |-> name, pdas |-> pdas, accounts |-> accounts]

Linkable(prog, n) == [program |-> prog.name, kind |-> n.kind, name |-> n.name, node |-> n]

\* LinkableDictionary.recordPath: the entry of a node replaces the entry of
\* the same program, kind and name.
recordPath(linkables, prog, n) ==
    {e \in linkables : ~(e.program = prog.name /\ e.kind = n.kind /\ e.name = n.name)}
        \cup {Linkable(prog, n)}

RECURSIVE RecordEach(_, _, _)
RecordEach(linkables, prog, nodes) ==
    IF nodes = <<>> THEN linkables
    ELSE RecordEach(recordPath(linkables, prog, Head(nodes)), prog, Tail(nodes))

RecordProgram(linkables, p) == RecordEach(recordPath(linkables, p, p), p, p.pdas \o p.accounts)

RECURSIVE RecordPrograms(_, _)
RecordPrograms(linkables, programs) ==
    IF programs = <<>> THEN linkables
    ELSE RecordPrograms(RecordProgram(linkables, Head(programs)), Tail(programs))

\* getRecordLinkablesVisitor: the linkable nodes of the tree below n.
getRecordLinkables(n, linkables) ==
    CASE n.kind = "rootNode" -> RecordPrograms(linkables, getAllPrograms(n))
      [] n.kind = "programNode" -> RecordProgram(linkables, n)
      [] OTHER -> linkables

\* A registry filled as the traversal reaches each program.
recordLinkablesOnFirstVisitVisitor_OnEntry(isFirstVisit, n, linkables) ==
    IF n.kind = "programNode" THEN RecordProgram(linkables, n) ELSE linkables

\* recordLinkablesOnFirstVisitVisitor: the first node visited has the whole
\* tree below it recorded before its handler runs; no later visit records.
recordLinkablesOnFirstVisitVisitor(isFirstVisit, n, linkables) ==
    IF isFirstVisit THEN getRecordLinkables(n, linkables) ELSE linkables

\* @codama/visitors-core: the innermost program of a path.
findProgramNodeFromPath(path) ==
    LET I == {i \in DOMAIN path : path[i].kind = "programNode"}
    IN  IF I = {} THEN NoProgram ELSE path[CHOOSE i \in I : \A j \in I : j <= i]

\* LinkableDictionary.get of a path that ends in a pdaLinkNode: the pda of
\* that name in the program the link names, else in the program of the path.
LinkableDictionary_get(linkables, linkPath) ==
    LET link == linkPath[Len(linkPath)]
        prog == IF link.program # Undefined THEN link.program
                ELSE findProgramNodeFromPath(linkPath)
        found == IF prog = NoProgram THEN {}
                 ELSE {e \in linkables :
                         e.program = prog.name /\ e.kind = "pdaNode" /\ e.name = link.name}
    IN  IF found = {} THEN Undefined ELSE (CHOOSE e \in found : TRUE).node

\* visitAccount, line 74: the pda an account links.
AccountPda(linkables, path, n) ==
    IF n.pda # Undefined THEN LinkableDictionary_get(linkables, Append(path, n.pda))
    ELSE Undefined

(* The traversal of a root by one visitor.  heap is linkables, pending     *)
(* holds the stack and the programs and accounts still to visit, renders   *)
(* holds isFirstVisit, out is the lookups made so far, each with the       *)
(* registry it was made in.                                                *)

MaxPdas == 2            \* pdas of a program
MaxAccounts == 2        \* accounts of a program

LinkNames == <<A, B, <<"c">>, <<"d">>>>

PdaLists(name) ==
    {[i \in 1..k |-> pdaNode(LinkNames[i], <<variablePdaSeedNode(name, publicKeyTypeNode)>>)] :
        k \in 0..MaxPdas}

\* No pda, the pda a of the account's program, the pda a of another program.
PdaLinks(other) == {Undefined, pdaLinkNode(A, Undefined), pdaLinkNode(A, programLinkNode(other))}

LinkedAccountLists(other) ==
    UNION {{[i \in 1..k |-> accountNodeWithPda(LinkNames[i], Inner, links[i])] :
                links \in [1..k -> PdaLinks(other)]} : k \in 0..MaxAccounts}

LinkedPrograms(name, other) ==
    {programNodeWithPdas(name, pdas, accounts) :
        pdas \in PdaLists(name), accounts \in LinkedAccountLists(other)}

LinkedRoots ==
    {rootNode(p, <<>>) : p \in LinkedPrograms(P, Q)}
    \cup {rootNode(p, <<q>>) : p \in LinkedPrograms(P, Q), q \in LinkedPrograms(Q, P)}

InitLinks ==
    /\ comp = "links"
    /\ pc = "root"
    /\ node \in LinkedRoots
    /\ results = <<>>
    /\ TypesIdle
    /\ program = NoProgram
    /\ pending = [stack |-> <<>>, programs |-> <<>>, children |-> <<>>]
    /\ renders = [isFirstVisit |-> TRUE]
    /\ logs = <<>>
    /\ heap = {}
    /\ out = <<>>
    /\ files = {}

\* visit(root, visitor) up to visitRoot's first visit of a program.
PushRoot ==
    /\ comp = "links"
    /\ pc = "root"
    /\ heap' = recordLinkablesOnFirstVisitVisitor(renders.isFirstVisit, node, heap)
    /\ renders' = [isFirstVisit |-> FALSE]
    /\ pending' = [stack |-> Append(pending.stack, node),
                   programs |-> getAllPrograms(node), children |-> <<>>]
    /\ pc' = "programs"
    /\ UNCHANGED <<comp, node, results, typeVars, program, logs, out, files>>

\* visit(p, self) up to visitProgram's first visit of an account.
PushProgram ==
    /\ comp = "links"
    /\ pc = "programs"
    /\ pending.programs # <<>>
    /\ LET p == Head(pending.programs)
       IN  /\ heap' = recordLinkablesOnFirstVisitVisitor(renders.isFirstVisit, p, heap)
           /\ program' = p
           /\ pending' = [stack |-> Append(pending.stack, p),
                          programs |-> Tail(pending.programs), children |-> p.accounts]
    /\ renders' = [isFirstVisit |-> FALSE]
    /\ pc' = "children"
    /\ UNCHANGED <<comp, node, results, typeVars, logs, out, files>>

\* visit(account, self): the account is on the stack while visitAccount
\* looks its pda up, and off it afterwards.
ResolveAccountPda ==
    /\ comp = "links"
    /\ pc = "children"
    /\ pending.children # <<>>
    /\ LET n == Head(pending.children)
           path == Append(pending.stack, n)
       IN  /\ heap' = recordLinkablesOnFirstVisitVisitor(renders.isFirstVisit, n, heap)
           /\ out' = Append(out,
                        [account |-> n, program |-> program, linkables |-> heap',
                         key |-> IF n.pda # Undefined THEN Append(path, n.pda) ELSE <<>>,
                         pda |-> AccountPda(heap', path, n)])
    /\ renders' = [isFirstVisit |-> FALSE]
    /\ pending' = [pending EXCEPT !.children = Tail(@)]
    /\ UNCHANGED <<comp, pc, node, results, typeVars, program, logs, files>>

\* visitProgram from the return of its last account on.
PopProgram ==
    /\ comp = "links"
    /\ pc = "children"
    /\ pending.children = <<>>
    /\ program' = NoProgram
    /\ pending' = [pending EXCEPT !.stack = SubSeq(@, 1, Len(@) - 1)]
    /\ pc' = "programs"
    /\ UNCHANGED <<comp, node, results, typeVars, renders, logs, hostVars>>

\* visitRoot from the return of its last program on.
PopRoot ==
    /\ comp = "links"
    /\ pc = "programs"
    /\ pending.programs = <<>>
    /\ pending' = [pending EXCEPT !.stack = SubSeq(@, 1, Len(@) - 1)]
    /\ pc' = "done"
    /\ UNCHANGED <<comp, node, results, typeVars, program, renders, logs, hostVars>>

NextLinks ==
    \/ PushRoot
    \/ PushProgram
    \/ ResolveAccountPda
    \/ PopProgram
    \/ PopRoot

SpecLinks == InitLinks /\ [][NextLinks]_vars

-----------------------------------------------------------------------------
(* Reading the emitted Go text.                                            *)

RECURSIVE SplitOn(_, _, _, _)
\* The lines of a token sequence: String.prototype.split(sep).
SplitOn(tokens, sep, cur, acc) ==
    IF tokens = <<>> THEN Append(acc, cur)
    ELSE IF Head(tokens) = sep THEN SplitOn(Tail(tokens), sep, <<>>, Append(acc, cur))
    ELSE SplitOn(Tail(tokens), sep, Append(cur, Head(tokens)), acc)

Lines(tokens) == SplitOn(tokens, "\n", <<>>, <<>>)

RECURSIVE TakeName(_)
\* The identifier a token sequence starts with.
TakeName(tokens) ==
    IF tokens = <<>> \/ ~IsAlnum(Head(tokens)) THEN <<>>
    ELSE <<Head(tokens)>> \o TakeName(Tail(tokens))

\* The name a declaration `type Name ...` declares.
DeclName(decl) ==
    IF decl # <<>> /\ Head(decl) = "type " THEN TakeName(Tail(decl)) ELSE <<>>

\* The names some `type Name` in the text declares.
DeclaredNames(tokens) ==
    {TakeName(SubSeq(tokens, i + 1, Len(tokens))) : i \in {j \in DOMAIN tokens : tokens[j] = "type "}}

\* The node a visit of n reaches below the naming nodes, and the name in
\* effect there.
Body(n) ==
    CASE n.kind = "definedTypeNode" -> n.type
      [] n.kind = "accountNode" -> n.data
      [] OTHER -> n
NameAt(n, opts) ==
    IF n.kind \in {"definedTypeNode", "accountNode"} THEN pascalCase(n.name)
    ELSE opts.parentName

\* The struct declaration a visit of a struct returned: its type, or, when
\* the struct was hoisted, the last of the nested declarations.
StructDecl(r) ==
    IF r.type # <<>> /\ Head(r.type) = "type " THEN r.type
    ELSE r.nestedStructs[Len(r.nestedStructs)]

\* The field lines of a struct declaration.
FieldLines(decl) == LET ls == Lines(decl) IN SubSeq(ls, 2, Len(ls) - 1)

RECURSIVE OneLine(_)
\* The types a struct field renders on one line.
OneLine(t) ==
    CASE t.kind \in {"numberTypeNode", "stringTypeNode", "structTypeNode"} -> TRUE
      [] t.kind \in {"optionTypeNode", "arrayTypeNode", "setTypeNode"} -> OneLine(t.item)
      [] OTHER -> FALSE

PlainStruct(n) ==
    /\ Body(n).kind = "structTypeNode"
    /\ \A i \in DOMAIN Body(n).fields : OneLine(Body(n).fields[i].type)

HasTag(tokens) == OPTIONAL_TAG \in Range(tokens)

-----------------------------------------------------------------------------
(* C1: in the manifest of a struct, a field's line carries the             *)
(* bin:"optional" tag if and only if the field's own type is an option     *)
(* node, and the fields of a struct nested inside an option carry none.    *)
C1_TagIffOptionField ==
    comp = "types" =>
    \A k \in DOMAIN results :
        (results[k].ok /\ PlainStruct(node)) =>
            LET fs == Body(node).fields
                ls == FieldLines(StructDecl(results[k]))
            IN  /\ Len(ls) = Len(fs)
                /\ \A i \in DOMAIN fs :
                    /\ HasTag(ls[i]) <=> (fs[i].type.kind = "optionTypeNode")
                    /\ (fs[i].type.kind = "optionTypeNode" /\ fs[i].type.item = Inner) =>
                        \A j \in DOMAIN results[k].nestedStructs :
                            LET d == results[k].nestedStructs[j]
                            IN  DeclName(d) = NameAt(node, options) \o pascalCase(fs[i].name)
                                    => ~HasTag(d)

-----------------------------------------------------------------------------
(* C2: a visit of a numeric node that is not little-endian fails, and so   *)
(* does the visit of a struct, array, option, tuple, map or enum that      *)
(* holds such a node anywhere inside it.                                   *)
RECURSIVE HoldsNonLittleEndian(_)
HoldsNonLittleEndian(n) ==
    CASE n.kind = "numberTypeNode" -> n.endian # "le"
      [] n.kind = "arrayTypeNode" ->
            \/ HoldsNonLittleEndian(n.item)
            \/ (n.count.kind = "prefixedCountNode" /\ HoldsNonLittleEndian(n.count.prefix))
      [] n.kind \in {"optionTypeNode", "setTypeNode"} -> HoldsNonLittleEndian(n.item)
      [] n.kind = "tupleTypeNode" -> \E i \in DOMAIN n.items : HoldsNonLittleEndian(n.items[i])
      [] n.kind = "mapTypeNode" -> HoldsNonLittleEndian(n.key) \/ HoldsNonLittleEndian(n.value)
      [] n.kind = "structTypeNode" ->
            \E i \in DOMAIN n.fields : HoldsNonLittleEndian(n.fields[i].type)
      [] n.kind = "enumTypeNode" ->
            \E i \in DOMAIN n.variants :
                \/ (n.variants[i].kind = "enumTupleVariantTypeNode"
                        /\ HoldsNonLittleEndian(n.variants[i].tuple))
                \/ (n.variants[i].kind = "enumStructVariantTypeNode"
                        /\ HoldsNonLittleEndian(n.variants[i].struct))
      [] n.kind \in {"fixedSizeTypeNode"} -> HoldsNonLittleEndian(n.type)
      [] n.kind = "sizePrefixTypeNode" ->
            HoldsNonLittleEndian(n.type) \/ HoldsNonLittleEndian(n.prefix)
      [] n.kind = "booleanTypeNode" -> HoldsNonLittleEndian(n.size)
      [] OTHER -> FALSE

C2_NonLittleEndianFails ==
    comp = "types" =>
    \A k \in DOMAIN results :
        (/\ Body(node).kind \in {"numberTypeNode", "structTypeNode", "arrayTypeNode",
                                 "optionTypeNode", "tupleTypeNode", "mapTypeNode",
                                 "enumTypeNode"}
         /\ HoldsNonLittleEndian(Body(node)))
            => ~results[k].ok

-----------------------------------------------------------------------------
(* Go's constant declarations: the value of iota in a ConstSpec is the     *)
(* index of the spec in its block, and a spec without an expression        *)
(* repeats the expression of the spec before it.                           *)

RECURSIVE TakeUntil(_, _)
TakeUntil(tokens, stop) ==
    IF tokens = <<>> \/ Head(tokens) = stop THEN <<>>
    ELSE <<Head(tokens)>> \o TakeUntil(Tail(tokens), stop)

FirstIndex(tokens, tok) == CHOOSE i \in DOMAIN tokens : tokens[i] = tok /\ \A j \in 1..(i - 1) : tokens[j] # tok

\* The ConstSpecs between `const (` and the `)` that closes it.
ConstSpecs(tokens) ==
    LET open == FirstIndex(tokens, "const (")
        rest == SubSeq(tokens, open + 2, Len(tokens))
        body == SubSeq(rest, 1, FirstIndex(rest, ")") - 1)
        ls == Lines(body)
    IN  SelectSeq(ls, LAMBDA l : l # <<>>)

HasIota(spec) == " = iota" \in Range(spec)
ConstName(spec) == TakeUntil(Tail(spec), " ")
\* The value Go gives the i-th spec, -1 when the block does not compile.
ConstValue(specs, i) == IF \E j \in 1..i : HasIota(specs[j]) THEN i - 1 ELSE -1

\* The enum a run is about, and the name in effect where it is visited.
EnumAt(n) ==
    IF Body(n).kind = "structTypeNode" THEN Body(n).fields[1].type ELSE Body(n)
EnumNameAt(n, opts) ==
    IF Body(n).kind = "structTypeNode"
    THEN NameAt(n, opts) \o pascalCase(Body(n).fields[1].name)
    ELSE NameAt(n, opts)
AboutEnum(n) ==
    \/ Body(n).kind = "enumTypeNode"
    \/ /\ Body(n).kind = "structTypeNode"
       /\ Len(Body(n).fields) = 1
       /\ Body(n).fields[1].type.kind = "enumTypeNode"

-----------------------------------------------------------------------------
(* C3: the constant block of a scalar enum lists the declared variants     *)
(* once each in declaration order, and the k-th variant gets ordinal k-1.  *)
C3_ScalarEnumOrdinals ==
    comp = "types" =>
    \A k \in DOMAIN results :
        (results[k].ok /\ AboutEnum(node) /\ isScalarEnum(EnumAt(node))) =>
            LET vs == EnumAt(node).variants
                typeName == EnumNameAt(node, options)
                text == IF Body(node).kind = "structTypeNode"
                        THEN StructDecl(results[k]) ELSE results[k].type
                specs == ConstSpecs(text)
            IN  /\ Len(specs) = Len(vs)
                /\ \A i \in DOMAIN vs :
                    /\ ConstName(specs[i]) = typeName \o <<"_">> \o pascalCase(vs[i].name)
                    /\ ConstValue(specs, i) = i - 1

C3_Witness ==
    /\ comp = "types"
    /\ Len(results) > 0
    /\ results[1].ok
    /\ node.kind = "definedTypeNode"
    /\ node.type.kind = "enumTypeNode"
    /\ isScalarEnum(node.type)
    /\ Len(node.type.variants) = MaxScalarVariants
    /\ node.type.variants[1].name # node.type.variants[2].name

-----------------------------------------------------------------------------
(* C4: for a data enum EnumName the payload aggregates the engine declares *)
(* are named EnumName+VariantName, one for each variant with a payload,    *)
(* and the value renderer's literal of such a variant starts with the same *)
(* name.                                                                   *)
DeclaredIn(r) ==
    DeclaredNames(r.type)
    \cup UNION {DeclaredNames(r.nestedStructs[j]) : j \in DOMAIN r.nestedStructs}

C4_PayloadNamesMatch ==
    comp = "types" =>
    \A k \in DOMAIN results :
        (/\ results[k].ok
         /\ node.kind = "definedTypeNode"
         /\ node.type.kind = "enumTypeNode"
         /\ ~isScalarEnum(node.type)) =>
            LET vs == node.type.variants
                enumName == pascalCase(node.name)
                withPayload == {i \in DOMAIN vs : vs[i].kind # "enumEmptyVariantTypeNode"}
                literal(i) ==
                    visitEnumValue(enumValueNode(node.name, vs[i].name,
                                                 tupleValueNode(<<numberValueNode(1)>>)))
            IN  /\ DeclaredIn(results[k]) \ {enumName}
                        = {enumName \o pascalCase(vs[i].name) : i \in withPayload}
                /\ \A i \in withPayload :
                        TakeUntil(literal(i).render, " ")
                            = enumName \o pascalCase(vs[i].name)

-----------------------------------------------------------------------------
(* C5: for a struct field path A.B.C the declaration hoisted for C is      *)
(* named PascalCase(A)+PascalCase(B)+PascalCase(C), the field line of C    *)
(* references that name, and a second run on the same tree returns the     *)
(* same manifest.                                                          *)
IsChain(n) ==
    /\ n.kind \in {"definedTypeNode", "accountNode"}
    /\ Body(n).kind = "structTypeNode"
    /\ Len(Body(n).fields) = 1
    /\ Body(n).fields[1].type.kind = "structTypeNode"
    /\ Len(Body(n).fields[1].type.fields) = 1
    /\ Body(n).fields[1].type.fields[1].type.kind = "structTypeNode"

ManifestOf(r) == [type |-> r.type, nestedStructs |-> r.nestedStructs, imports |-> r.imports]

C5_ChainNaming ==
    comp = "types" =>
    \A k \in DOMAIN results :
        IsChain(node) =>
            LET r == results[k]
                b == Body(node).fields[1]
                cc == b.type.fields[1]
                name == pascalCase(node.name) \o pascalCase(b.name) \o pascalCase(cc.name)
            IN  /\ r.ok
                /\ Len(r.nestedStructs) >= 2
                /\ DeclName(r.nestedStructs[1]) = name
                /\ FieldLines(r.nestedStructs[2])
                        = << <<"\t">> \o pascalCase(cc.name) \o <<" ">> \o name >>
                /\ ManifestOf(r) = ManifestOf(results[1])

C5_Witness ==
    /\ comp = "types"
    /\ IsChain(node)
    /\ node.name = <<"a">>
    /\ Body(node).fields[1].name = <<"b", "C">>
    /\ Body(node).fields[1].type.fields[1].name = <<"x", "1">>
    /\ Len(results) = 2
    /\ results[2].ok
    /\ DeclName(results[2].nestedStructs[1]) = <<"A", "B", "C", "X", "1">>

-----------------------------------------------------------------------------
(* C6: resolving a map that resolveDependencyMap returned, against the     *)
(* same dependency map, returns the same import set and the same aliases.  *)

AliasSet(m) == Range(m.aliases)

C6_ResolveIdempotent ==
    (comp = "imports" /\ Len(results) = MaxResolves) =>
        /\ results[2].imports = results[1].imports
        /\ AliasSet(results[2]) = AliasSet(results[1])

-----------------------------------------------------------------------------
(* C7: the names an instruction's warning reports are exactly the names in *)
(* both its account list and its argument list; the arguments with such a  *)
(* name are rendered with the suffix Arg and the others keep their names;  *)
(* and the warning does not end the run.                                   *)

\* The instruction pages the visits of the current program have returned.
InstructionPages ==
    {e.content.ctx : e \in {x \in UNION Range(renders.children) :
                                x.content.template = "instructionsPage.njk"}}

\* The names the warning about an instruction reports.
Reported(ix) ==
    UNION {Range(logs[i].conflicts) : i \in {j \in DOMAIN logs : logs[j].instruction = ix.name}}

InBothLists(ix) == Range(Names(ix.accounts)) \cap Range(Names(ix.arguments))

C7_ConflictsAreSharedNames ==
    comp = "render" =>
        /\ \A page \in InstructionPages :
            LET ix == page.instruction
            IN  /\ Reported(ix) = InBothLists(ix)
                /\ \A i \in DOMAIN ix.arguments :
                     page.instructionArgs[i].name =
                        IF ix.arguments[i].name \in InBothLists(ix)
                        THEN ix.arguments[i].name \o ARG
                        ELSE ix.arguments[i].name
        /\ (logs # <<>> => pc # "failed")

-----------------------------------------------------------------------------
(* C8: the render map a root returns is the union of the render maps its   *)
(* programs returned, together with instructions.go, which is there if and *)
(* only if the tree has a program, account, instruction or defined type.   *)

INDEX_PATH == <<"instructions.go">>

Exports(root) ==
    \/ getAllPrograms(root) # <<>>
    \/ \E i \in DOMAIN getAllPrograms(root) :
         LET p == getAllPrograms(root)[i]
         IN  p.accounts # <<>> \/ p.definedTypes # <<>> \/ p.instructions # <<>>

C8_RootIsUnionPlusIndex ==
    (comp = "render" /\ pc = "done") =>
        LET result == results[1].renders
        IN  /\ (INDEX_PATH \in Paths(result)) <=> Exports(node)
            /\ {e \in result : e.path # INDEX_PATH} = UNION Range(renders.programs)

-----------------------------------------------------------------------------
(* C9: a finished run has one entry for each account, defined type, leaf   *)
(* instruction and program with errors, and one for the index; a tree in   *)
(* which two of them have the same output path ends in a failure.          *)

RECURSIVE SumOver(_)
SumOver(ns) == IF ns = <<>> THEN 0 ELSE Head(ns) + SumOver(Tail(ns))

Emittable(root) ==
    SumOver([i \in DOMAIN getAllPrograms(root) |->
        LET p == getAllPrograms(root)[i]
        IN  Len(p.accounts) + Len(p.definedTypes)
            + Len(getAllInstructionsWithSubs(p, TRUE))
            + (IF p.errors # <<>> THEN 1 ELSE 0)])

C9_OneEntryPerEntity ==
    (comp = "render" /\ pc = "done") =>
        Cardinality(results[1].renders) = Emittable(node) + 1

-----------------------------------------------------------------------------
(* C10: a constant number of format u8 or i8 renders as the byte literal   *)
(* and adds no dependency; of a wider format it renders as the AppendUint  *)
(* call of its bit width and endianness and adds encoding/binary.          *)

BitWidthChars(format) ==
    CASE format \in {"u8", "i8"} -> <<"8">>
      [] format \in {"u16", "i16", "shortU16"} -> <<"1", "6">>
      [] format \in {"u32", "i32", "f32"} -> <<"3", "2">>
      [] format \in {"u64", "i64", "f64"} -> <<"6", "4">>
      [] format \in {"u128", "i128"} -> <<"1", "2", "8">>

C10_ConstantNumberFold ==
    (comp = "values" /\ node \in ConstantNumbers) =>
        \A k \in DOMAIN results :
            LET format == node.type.format
                n == <<ToString(node.value.number)>>
            IN  /\ results[k].ok
                /\ IF format \in {"u8", "i8"}
                   THEN /\ results[k].render = <<"byte(">> \o n \o <<")">>
                        /\ results[k].imports.imports = {}
                   ELSE /\ results[k].render =
                            <<"binary.",
                              IF node.type.endian = "le" THEN "LittleEndian" ELSE "BigEndian",
                              ".AppendUint">> \o BitWidthChars(format) \o <<"(nil, ">> \o n \o <<")">>
                        /\ ENCODING_BINARY \in results[k].imports.imports

-----------------------------------------------------------------------------
(* C11: the text toString returns has one line for each resolved           *)
(* identifier; the identifiers without a dot in their first path segment   *)
(* come before those with one; each of the two groups is in ascending      *)
(* order; a line carries the alias declared for its identifier, or else    *)
(* the alias of the built-in table, or else none; and the text is empty    *)
(* when no identifier is left.                                             *)

\* The lines between `import (` and `)` that are not blank.
ImportLines(text) ==
    LET ls == Lines(text)
    IN  SelectSeq(SubSeq(ls, 2, Len(ls) - 1), LAMBDA l : l # <<>>)

\* The path between the quotes of an import line, and what is before them.
QuotedPath(line) ==
    LET open == FirstIndex(line, "\"")
    IN  SubSeq(line, open + 1, Len(line) - 1)
AliasOf(line) ==
    LET open == FirstIndex(line, "\"")
    IN  IF open = 2 THEN <<>> ELSE SubSeq(line, 2, open - 2)

PathHasDot(path) == "." \in Range(TakeUntil(path, "/"))

\* The alias the line of identifier i is to carry.
ExpectedAlias(resolved, i) ==
    IF \E k \in DOMAIN resolved.aliases : resolved.aliases[k].key = i
    THEN resolved.aliases[CHOOSE k \in DOMAIN resolved.aliases :
                            resolved.aliases[k].key = i].value
    ELSE IF \E k \in DOMAIN GO_PACKAGE_ALIASES : GO_PACKAGE_ALIASES[k].key = i
    THEN GO_PACKAGE_ALIASES[CHOOSE k \in DOMAIN GO_PACKAGE_ALIASES :
                                GO_PACKAGE_ALIASES[k].key = i].value
    ELSE <<>>

C11_ImportBlock ==
    comp = "imports" =>
    \A o \in DOMAIN out :
        LET resolved == resolveDependencyMap(heap[out[o].receiver], node.dependencies)
            text == out[o].text
            ls == ImportLines(text)
        IN  IF resolved.imports = {} THEN text = <<>>
            ELSE /\ Head(Lines(text)) = <<"import (">>
                 /\ Lines(text)[Len(Lines(text))] = <<")">>
                 /\ Len(ls) = Cardinality(resolved.imports)
                 /\ \A i \in resolved.imports :
                      \E l \in DOMAIN ls :
                        /\ Head(ls[l]) = "\t"
                        /\ QuotedPath(ls[l]) = Chars(i)
                        /\ AliasOf(ls[l]) = ExpectedAlias(resolved, i)
                 /\ \A a, b \in DOMAIN ls :
                      a < b =>
                        /\ PathHasDot(QuotedPath(ls[a])) => PathHasDot(QuotedPath(ls[b]))
                        /\ (PathHasDot(QuotedPath(ls[a])) = PathHasDot(QuotedPath(ls[b])))
                              => StringLess(QuotedPath(ls[a]), QuotedPath(ls[b]))

C11_Witness ==
    /\ comp = "imports"
    /\ Len(out) = 1
    /\ Len(ImportLines(out[1].text)) = 2
    /\ AliasOf(ImportLines(out[1].text)[1]) = <<>>
    /\ ~PathHasDot(QuotedPath(ImportLines(out[1].text)[1]))
    /\ AliasOf(ImportLines(out[1].text)[2]) = <<"al">>
    /\ PathHasDot(QuotedPath(ImportLines(out[1].text)[2]))
    /\ \E k \in DOMAIN heap[out[1].receiver].aliases :
         heap[out[1].receiver].aliases[k].key = AG_BINARY

-----------------------------------------------------------------------------
(* C13: the map resolveDependencyMap returns holds, for every identifier   *)
(* key::rest of the receiver whose key is a key of the dependency map or   *)
(* of the default table, the mapped path followed by ::rest, or nothing    *)
(* when the mapped value is empty; it holds every other identifier as it   *)
(* is; its aliases are the receiver's with their keys rewritten the same   *)
(* way; and the receiver is as it was before the call.                     *)

DEFAULT_KEYS ==
    {<<"generated">>, <<"generatedAccounts">>, <<"generatedErrors">>,
     <<"generatedInstructions">>, <<"generatedTypes">>, <<"hooked">>}

\* The keys of the dependency map d and of the default table.
KnownKeys(d) == {d[k].key : k \in DOMAIN d} \cup DEFAULT_KEYS

\* The path a known key is mapped to: the one d gives, or else the empty one.
MappedValue(d, key) ==
    IF \E k \in DOMAIN d : d[k].key = key
    THEN d[CHOOSE k \in DOMAIN d : d[k].key = key].value
    ELSE <<>>

\* The key of d or of the default table that identifier i starts with.
HasKey(d, i) ==
    \E key \in KnownKeys(d) : Len(i) > Len(key) /\ SubSeq(i, 1, Len(key)) = key
KeyOf(d, i) ==
    CHOOSE key \in KnownKeys(d) : Len(i) > Len(key) /\ SubSeq(i, 1, Len(key)) = key

\* The identifiers that take the place of i: one, or none when i is deleted.
Rewritten(d, i) ==
    IF ~HasKey(d, i) THEN {i}
    ELSE IF MappedValue(d, KeyOf(d, i)) = <<>> THEN {}
    ELSE {MappedValue(d, KeyOf(d, i)) \o SubSeq(i, Len(KeyOf(d, i)) + 1, Len(i))}

C13_ResolveRewrites ==
    comp = "imports" =>
        /\ heap[1] = node.map
        /\ \A k \in DOMAIN results :
            LET receiver == heap[k]
                returned == heap[k + 1]
                d == node.dependencies
            IN  /\ returned = results[k]
                /\ returned.imports = UNION {Rewritten(d, i) : i \in receiver.imports}
                /\ Range(returned.aliases) =
                     UNION {{[key |-> key, value |-> receiver.aliases[e].value] :
                                key \in Rewritten(d, receiver.aliases[e].key)} :
                            e \in DOMAIN receiver.aliases}

C13_Witness ==
    /\ comp = "imports"
    /\ Len(results) = 1
    /\ K \o <<"Foo">> \in heap[1].imports
    /\ <<"generatedTypes", "Foo">> \in heap[1].imports
    /\ heap[2].imports = {<<"github.com/x/y", "Foo">>}
    /\ heap[2].aliases = <<[key |-> <<"github.com/x/y", "Foo">>, value |-> <<"al">>]>>

-----------------------------------------------------------------------------
(* C12: mergeWith is commutative and associative on the identifier sets:   *)
(* merging B into A gives A the import set that merging A into B gives B,  *)
(* and merging B then C into A gives A the import set it gets when C is    *)
(* merged into B first; the import set a call leaves in its receiver is    *)
(* the union of the receiver's and the arguments', and the call leaves the *)
(* import set and the aliases of every argument map as they were.          *)

C12_MergeUnion ==
    comp = "merge" =>
        /\ \A a, b \in DOMAIN heap :
             Heap_mergeWith(heap, a, <<b>>)[a].imports
               = Heap_mergeWith(heap, b, <<a>>)[b].imports
        /\ \A a, b, c \in DOMAIN heap :
             Heap_mergeWith(Heap_mergeWith(heap, a, <<b>>), a, <<c>>)[a].imports
               = Heap_mergeWith(Heap_mergeWith(heap, b, <<c>>), a, <<b>>)[a].imports
        /\ \A k \in DOMAIN results :
             LET call == results[k]
             IN  /\ heap[call.receiver].imports
                      = call.before[call.receiver].imports
                          \cup UNION {call.before[o].imports : o \in Range(call.others)}
                 /\ \A o \in Range(call.others) :
                      o # call.receiver => heap[o] = call.before[o]

C12_Witness ==
    /\ comp = "merge"
    /\ Len(results) = 1
    /\ Len(results[1].others) = 2
    /\ results[1].others[1] # results[1].others[2]
    /\ results[1].receiver \notin Range(results[1].others)
    /\ results[1].before[results[1].receiver].imports = {K \o <<"Foo">>}
    /\ heap[results[1].receiver].imports = {K \o <<"Foo">>, <<"fmt">>, AG_BINARY}
    /\ heap[results[1].others[1]].imports = {<<"fmt">>}

-----------------------------------------------------------------------------
(* C14: visited with no size in effect, a string under a fixed-size        *)
(* wrapper of N bytes is [N]byte for every N of the run, 0 included, and a *)
(* string under a size prefix or on its own is string; bytes under the     *)
(* same wrappers are [N]uint8 and []uint8.                                 *)

IsFixed(n, leaf) == n.kind = "fixedSizeTypeNode" /\ n.type = leaf
IsOpen(n, leaf) == n = leaf \/ (n.kind = "sizePrefixTypeNode" /\ n.type = leaf)

C14_SizedStringAndBytes ==
    comp = "shared" =>
    \A k \in DOMAIN out :
        LET n == out[k].node
            manifest == out[k].manifest
        IN  out[k].before.parentSize = NoSize =>
            /\ IsFixed(n, stringTypeNode) =>
                 manifest.ok /\ manifest.type = <<"[", ToString(n.size), "]", "byte">>
            /\ IsOpen(n, stringTypeNode) =>
                 manifest.ok /\ manifest.type = <<"string">>
            /\ IsFixed(n, bytesTypeNode) =>
                 manifest.ok /\ manifest.type = <<"[", ToString(n.size), "]", "uint8">>
            /\ IsOpen(n, bytesTypeNode) =>
                 manifest.ok /\ manifest.type = <<"[]", "uint8">>

-----------------------------------------------------------------------------
(* C15: the manifest of a defined-type link is the PascalCase name of the  *)
(* link; its import set is empty when the target is in the same output,    *)
(* and not empty when the link names a program or the link overrides name  *)
(* the type.                                                               *)

InOtherModule(link, opts) ==
    \/ "program" \in DOMAIN link
    \/ \E i \in DOMAIN opts.linkOverrides : opts.linkOverrides[i].key = link.name

C15_LinkDependencies ==
    comp = "shared" =>
    \A k \in DOMAIN out :
        LET n == out[k].node
            manifest == out[k].manifest
        IN  n.kind = "definedTypeLinkNode" =>
            /\ manifest.ok
            /\ manifest.type = pascalCase(n.name)
            /\ InOtherModule(n, options) <=> manifest.imports.imports # {}

-----------------------------------------------------------------------------
(* C16: a boolean whose size, the wrappers around it taken off, is u8 or   *)
(* i8 and little-endian is bool; a boolean of any other size fails.        *)

C16_OneByteBooleans ==
    comp = "shared" =>
    \A k \in DOMAIN out :
        LET n == out[k].node
            manifest == out[k].manifest
        IN  n.kind = "booleanTypeNode" =>
            LET size == resolveNestedTypeNode(n.size)
            IN  IF size.format \in {"u8", "i8"} /\ size.endian = "le"
                THEN manifest.ok /\ manifest.type = <<"bool">>
                ELSE ~manifest.ok

-----------------------------------------------------------------------------
(* C17: a visit that starts with no parentName and reaches a struct, a     *)
(* struct field, an enum or a variant with a payload before any node that  *)
(* sets the name fails and returns no manifest, whether the visitor was    *)
(* created without a name or a visit of a defined type or of an account    *)
(* has reset it.                                                           *)

RECURSIVE NeedsParentName(_)
NeedsParentName(n) ==
    CASE n.kind \in {"structTypeNode", "structFieldTypeNode", "enumTypeNode",
                     "enumTupleVariantTypeNode", "enumStructVariantTypeNode"} -> TRUE
      [] n.kind \in {"arrayTypeNode", "optionTypeNode", "setTypeNode"} ->
            NeedsParentName(n.item)
      [] n.kind \in {"fixedSizeTypeNode", "sizePrefixTypeNode"} -> NeedsParentName(n.type)
      [] n.kind = "tupleTypeNode" -> \E i \in DOMAIN n.items : NeedsParentName(n.items[i])
      [] n.kind = "mapTypeNode" -> NeedsParentName(n.key) \/ NeedsParentName(n.value)
      [] OTHER -> FALSE

C17_NamelessFails ==
    comp = "shared" =>
    \A k \in DOMAIN out :
        (out[k].before.parentName = Null /\ NeedsParentName(out[k].node))
            => ~out[k].manifest.ok /\ out[k].manifest.type = <<>>

C17_Witness ==
    /\ comp = "shared"
    /\ options.parentName # Null
    /\ Len(out) = 2
    /\ out[1].node = definedTypeNode(POINT, arrayTypeNode(Inner, remainderCountNode))
    /\ out[1].manifest.ok
    /\ out[2].node = arrayTypeNode(Inner, remainderCountNode)
    /\ out[2].before.parentName = Null
    /\ out[2].manifest.err = "Struct type must have a parent name."

-----------------------------------------------------------------------------
(* C20: a string or bytes one level below the child of a wrapper is        *)
(* written as it is without the wrapper: the child of a fixed-size or      *)
(* size-prefix wrapper that is not itself a string, bytes or a wrapper     *)
(* gives the type it gives on its own, and an array child gives its items  *)
(* the type they have on their own.                                        *)

EndsWith(type, tail) ==
    Len(type) >= Len(tail) /\ SubSeq(type, Len(type) - Len(tail) + 1, Len(type)) = tail

C20_WrapperReachesOnlyChild ==
    comp = "shared" =>
    \A k \in DOMAIN out :
        LET n == out[k].node
            before == out[k].before
            manifest == out[k].manifest
        IN  (/\ n.kind \in {"fixedSizeTypeNode", "sizePrefixTypeNode"}
             /\ before.parentSize = NoSize
             /\ n.type.kind \notin {"stringTypeNode", "bytesTypeNode",
                                    "fixedSizeTypeNode", "sizePrefixTypeNode"})
            => /\ manifest.ok = Visit(n.type, before).ok
               /\ n.type.kind # "arrayTypeNode" =>
                    manifest.type = Visit(n.type, before).type
               /\ (n.type.kind = "arrayTypeNode" /\ manifest.ok) =>
                    EndsWith(manifest.type, Visit(n.type.item, before).type)

-----------------------------------------------------------------------------
(* C18: while the children of a program are visited the variable program   *)
(* is that program, the children come in the order accounts, defined       *)
(* types, instructions, and each is rendered with the snake-cased name of  *)
(* the program as packageName; outside the visit of a program the          *)
(* variable is null, and every entry a program returned carries the name   *)
(* of that program and no other.                                           *)

EntityOf(renderMap) ==
    LET content == (CHOOSE e \in renderMap : TRUE).content
    IN  CASE content.template = "accountsPage.njk" -> content.ctx.account
          [] content.template = "definedTypesPage.njk" -> content.ctx.definedType
          [] content.template = "instructionsPage.njk" -> content.ctx.instruction

AccountsTypesInstructions(prog) ==
    prog.accounts \o prog.definedTypes \o getAllInstructionsWithSubs(prog, TRUE)

C18_CurrentProgram ==
    comp = "render" =>
        /\ pc \in {"root", "programs", "done"} => program = NoProgram
        /\ pc = "children" =>
            /\ program = getAllPrograms(node)[Len(renders.programs) + 1]
            /\ \A i \in DOMAIN renders.children :
                /\ Cardinality(renders.children[i]) = 1
                /\ EntityOf(renders.children[i]) = AccountsTypesInstructions(program)[i]
                /\ \A e \in renders.children[i] :
                     /\ e.content.ctx.packageName = snakeCase(program.name)
                     /\ "program" \in DOMAIN e.content.ctx => e.content.ctx.program = program
            /\ [i \in DOMAIN pending.children |->
                    AccountsTypesInstructions(program)[Len(renders.children) + i]]
                 = pending.children
        /\ \A i \in DOMAIN renders.programs :
             \A e \in renders.programs[i] :
                e.content.ctx.packageName = snakeCase(getAllPrograms(node)[i].name)

C18_Witness ==
    /\ comp = "render"
    /\ pc = "children"
    /\ Len(renders.programs) = 1
    /\ program.name = Q
    /\ Len(renders.children) = 3
    /\ pending.children = <<>>
    /\ EntityOf(renders.children[1]).kind = "accountNode"
    /\ EntityOf(renders.children[2]).kind = "definedTypeNode"
    /\ EntityOf(renders.children[3]).kind = "instructionNode"

-----------------------------------------------------------------------------
(* C19: the steps of a run are, in this order, the deletion of the output  *)
(* directory unless deleteFolderBeforeRendering is false, the writing of   *)
(* the render map, and the formatter unless formatCode is false; a run     *)
(* that has written its files does not fail; a missing formatter logs one  *)
(* warning and nothing else, what the formatter writes on stdout is logged *)
(* as a warning and on stderr as an error; and the files are as the        *)
(* writing left them when the formatter is missing.                        *)

StepNames == [i \in DOMAIN results |-> results[i].step]

StepsOf(opts) ==
    (IF opts.deleteFolderBeforeRendering # "false" THEN <<"deleteDirectory">> ELSE <<>>)
    \o <<"writeRenderMap">>
    \o (IF opts.formatCode # "false" THEN <<"runFormatter">> ELSE <<>>)

IsPrefix(a, b) == Len(a) <= Len(b) /\ SubSeq(b, 1, Len(a)) = a

\* The logs of the formatter: those with a level, which the warnings of the
\* rendering do not have.
HasLevel(l) == "level" \in DOMAIN l
FormatterLogs == SelectSeq(logs, HasLevel)

C19_StepsAndLogs ==
    comp = "run" =>
        /\ IsPrefix(StepNames, StepsOf(node.options))
        /\ pc = "done" => StepNames = StepsOf(node.options)
        /\ pc = "failed" => "writeRenderMap" \notin Range(StepNames)
        /\ \A i \in DOMAIN results :
             results[i].step = "deleteDirectory" => results[i].files = {}
        /\ \A i \in DOMAIN results :
             results[i].step = "runFormatter" =>
                LET spawned == results[i].spawned
                IN  /\ pc = "done"
                    /\ spawned.error = ENOENT =>
                         FormatterLogs =
                            <<[level |-> "warn",
                               message |-> <<"Could not find ", "gofmt",
                                             ", skipping formatting.">>]>>
                    /\ spawned.stdout # <<>> =>
                         [level |-> "warn", message |-> <<"(gofmt) ">> \o spawned.stdout]
                            \in Range(FormatterLogs)
                    /\ spawned.stderr # <<>> =>
                         [level |-> "error", message |-> <<"(gofmt) ">> \o spawned.stderr]
                            \in Range(FormatterLogs)

\* The formatter was missing, or wrote on stdout or stderr.
FormatterSpoke(i) ==
    \/ results[i].spawned.error = ENOENT
    \/ results[i].spawned.stdout # <<>>
    \/ results[i].spawned.stderr # <<>>

C19_RunOrder ==
    /\ C19_StepsAndLogs
    /\ comp = "run" =>
         \A i \in DOMAIN results :
            (results[i].step = "runFormatter" /\ results[i].spawned.error = ENOENT)
                => files = results[i - 1].files

\* As stated: the written files do not change either when the formatter
\* wrote on stdout or stderr.
C19_FilesNeverChange ==
    /\ C19_StepsAndLogs
    /\ comp = "run" =>
         \A i \in DOMAIN results :
            (results[i].step = "runFormatter" /\ FormatterSpoke(i))
                => files = results[i - 1].files

C19_Witness ==
    /\ comp = "run"
    /\ pc = "done"
    /\ StepNames = <<"deleteDirectory", "writeRenderMap", "runFormatter">>
    /\ results[3].spawned.error = ENOENT
    /\ node.directory # {}
    /\ Cardinality(files) >= 3
    /\ files = results[2].files
    /\ OldFile(OLD) \notin files

-----------------------------------------------------------------------------
(* C21: a visit that returns leaves parentName, nestedStruct,              *)
(* inlineStruct, parentSize and isOptionField as they were before it.      *)

C21_ReturnRestoresContext ==
    comp = "shared" =>
    \A k \in DOMAIN out :
        out[k].manifest.ok => out[k].manifest.ctx = out[k].before

-----------------------------------------------------------------------------
(* C22: a visit that throws leaves the five variables as they were before  *)
(* it, and a visit that follows one gives the manifest a visitor just      *)
(* created with the same options gives.                                    *)

SameManifest(a, b) ==
    /\ a.ok = b.ok
    /\ a.type = b.type
    /\ a.nestedStructs = b.nestedStructs
    /\ a.imports = b.imports

C22_ThrowRestoresContext ==
    comp = "shared" =>
    \A k \in DOMAIN out :
        /\ ~out[k].manifest.ok => out[k].manifest.ctx = out[k].before
        /\ (k > 1 /\ ~out[k - 1].manifest.ok) =>
             SameManifest(out[k].manifest, Visit(out[k].node, InitialContext(options)))

-----------------------------------------------------------------------------
(* C23: in a traversal from the root, the link registry holds every pda of *)
(* every program when an account's pda is looked up, whatever order the    *)
(* programs, pdas and accounts are declared in; the registry is the same   *)
(* at every lookup and afterwards; the key of a lookup is the path to the  *)
(* account followed by its pda link, and the lookup returns the pda of     *)
(* that name declared in the program the link names, or else in the        *)
(* account's program.                                                      *)
DeclaredPda(root, progName, name) ==
    LET declared == {d \in UNION {Range(p.pdas) : p \in {q \in Range(getAllPrograms(root)) : q.name = progName}} :
                        d.name = name}
    IN  IF declared = {} THEN Undefined ELSE CHOOSE d \in declared : TRUE

C23_RegistryBeforeAccounts ==
    comp = "links" =>
    \A k \in DOMAIN out :
        LET o == out[k]
            link == o.account.pda
        IN  /\ \A p \in Range(getAllPrograms(node)) : \A d \in Range(p.pdas) :
                    Linkable(p, d) \in o.linkables
            /\ o.linkables = heap
            /\ link # Undefined =>
                    /\ o.key = <<node, o.program, o.account, link>>
                    /\ o.program \in Range(getAllPrograms(node))
                    /\ o.account \in Range(o.program.accounts)
                    /\ o.pda = DeclaredPda(node,
                                  IF link.program # Undefined THEN link.program.name
                                  ELSE o.program.name, link.name)

\* An account of the first program resolved a pda of the second one.
C23_Witness ==
    /\ comp = "links"
    /\ pc = "done"
    /\ \E k \in DOMAIN out :
           /\ out[k].program.name = P
           /\ out[k].account.pda = pdaLinkNode(A, programLinkNode(Q))
           /\ out[k].pda # Undefined
           /\ out[k].pda.seeds[1].name = Q

-----------------------------------------------------------------------------
(* C24: the nestedStructs of a manifest are one declaration for every      *)
(* struct visited below a struct field (for a visitor created with         *)
(* nestedStruct, which is handed the type of a field: for every struct     *)
(* visited), each named by its path, in the order of a depth-first walk    *)
(* that takes fields, items, key and value, and variants as declared and   *)
(* puts the declarations found inside a struct before that struct's own;   *)
(* the nodes around a struct pass the list on unchanged.                   *)
RECURSIVE ExpectedDeclarations(_, _, _)
ExpectedEach(types, name, hoisted) ==
    FlatMap([i \in DOMAIN types |-> ExpectedDeclarations(types[i], name, hoisted)])
ExpectedDeclarations(n, name, hoisted) ==
    CASE n.kind = "structTypeNode" ->
            FlatMap([i \in DOMAIN n.fields |->
                ExpectedDeclarations(n.fields[i].type,
                    pascalCase(name) \o pascalCase(n.fields[i].name), TRUE)])
            \o (IF hoisted THEN <<pascalCase(name)>> ELSE <<>>)
      [] n.kind \in {"definedTypeNode", "accountNode"} ->
            ExpectedDeclarations(Body(n), pascalCase(n.name), hoisted)
      [] n.kind \in {"arrayTypeNode", "optionTypeNode", "setTypeNode"} ->
            ExpectedDeclarations(n.item, name, hoisted)
      [] n.kind \in {"fixedSizeTypeNode", "sizePrefixTypeNode"} ->
            ExpectedDeclarations(n.type, name, hoisted)
      [] n.kind = "tupleTypeNode" -> ExpectedEach(n.items, name, hoisted)
      [] n.kind = "mapTypeNode" -> ExpectedEach(<<n.key, n.value>>, name, hoisted)
      [] n.kind = "enumTypeNode" ->
            FlatMap([i \in DOMAIN n.variants |->
                LET v == n.variants[i]
                    variantName == pascalCase(name) \o pascalCase(v.name)
                IN  CASE v.kind = "enumStructVariantTypeNode" ->
                            ExpectedDeclarations(v.struct, variantName, hoisted)
                      [] v.kind = "enumTupleVariantTypeNode" ->
                            ExpectedDeclarations(v.tuple, variantName, hoisted)
                      [] OTHER -> <<>>])
      [] OTHER -> <<>>

DeclNames(decls) == [i \in DOMAIN decls |-> DeclName(decls[i])]

C24_HoistedInDiscoveryOrder ==
    comp = "types" =>
    \A k \in DOMAIN results :
        results[k].ok =>
            /\ DeclNames(results[k].nestedStructs)
                    = ExpectedDeclarations(node, options.parentName, options.nestedStruct)
            /\ \A i \in DOMAIN results[k].nestedStructs :
                    Head(results[k].nestedStructs[i]) = "type "

\* A field holding a tuple of two structs, the second with a struct of its
\* own, beside a sibling field holding a struct.
C24_Witness ==
    /\ comp = "types"
    /\ node = definedTypeNode(POINT, structTypeNode(
                <<structFieldTypeNode(X, tupleTypeNode(<<Inner, Deep>>)),
                  structFieldTypeNode(<<"z">>, Inner)>>))
    /\ Len(results) = 1
    /\ results[1].ok
    /\ Len(results[1].nestedStructs) = 4
    /\ DeclName(results[1].nestedStructs[4]) = <<"P", "o", "i", "n", "t", "Z">>

-----------------------------------------------------------------------------
(* C25: the names the nestedStructs of a manifest declare are pairwise     *)
(* distinct, and none of them is the name of the defined type or account   *)
(* the manifest is of.                                                     *)
C25_DistinctNames ==
    comp = "types" =>
    \A k \in DOMAIN results :
        (results[k].ok /\ ~options.nestedStruct) =>
            LET names == DeclNames(results[k].nestedStructs)
            IN  /\ \A i, j \in DOMAIN names : i # j => names[i] # names[j]
                /\ node.kind \in {"definedTypeNode", "accountNode"} =>
                        \A i \in DOMAIN names : names[i] # pascalCase(node.name)

-----------------------------------------------------------------------------
(* C26: the type recorded for an argument in instructionArgs is the type   *)
(* of the field of that argument in the struct declared for the            *)
(* instruction's data, and innerOptionType is that type without its        *)
(* leading '*' when the argument is an option.                             *)
\* The type on the line of a field, without the tag that may follow it.
FieldTypeOf(line, name) ==
    LET start == Len(<<"\t">> \o pascalCase(name) \o <<" ">>)
        rest == SubSeq(line, start + 1, Len(line))
        tag == <<" ", BQ, OPTIONAL_TAG, BQ>>
    IN  IF Len(rest) >= Len(tag) /\ SubSeq(rest, Len(rest) - Len(tag) + 1, Len(rest)) = tag
        THEN SubSeq(rest, 1, Len(rest) - Len(tag))
        ELSE rest

C26_ArgumentTypesAgree ==
    comp = "render" =>
    \A page \in InstructionPages :
        LET arguments == page.instruction.arguments
            lines == FieldLines(page.typeManifest.type)
        IN  \A i \in DOMAIN arguments :
                LET fieldType == FieldTypeOf(lines[i], arguments[i].name)
                IN  /\ page.instructionArgs[i].type = fieldType
                    /\ arguments[i].type.kind = "optionTypeNode" =>
                            page.instructionArgs[i].innerOptionType = Tail(fieldType)

====
